---- MODULE Spec2Model ----
(***************************************************************************)
(* Verification model of flame_utils: element lookup (core/element.py,     *)
(* misc/listset.py), the lattice serializer's patch mode (io/lattice.py),  *)
(* the BeamState moment algebra (core/state.py, misc/alias.py) and the     *)
(* source encoder (core/state.py generate_source).                         *)
(*                                                                         *)
(* Python lists whose order is never observed by the modelled code are     *)
(* sets; text is a sequence of one-character strings; floating point       *)
(* numbers are exact rationals with a decimal exponent (see Numbers).       *)
(***************************************************************************)
EXTENDS Integers, Sequences, FiniteSets, TLC

\* Python's None for an optional argument or result: NoneOf(d) carries a
\* placeholder d of the type of the values, Some(v) a value
NoneOf(d) == [some |-> FALSE, v |-> d]
Some(x)   == [some |-> TRUE, v |-> x]
NoneSet   == NoneOf({})
NoneSeq   == NoneOf(<<>>)

\* ------------------------------------------------------------------------
\* Element lookup: state
\* ------------------------------------------------------------------------
\* ------------------------------------------------------------------------
\* Bounds of the model
\* ------------------------------------------------------------------------
\* longest original lattice file handed to patch mode, in lines
MaxLines == 3
\* most calls made on the BeamState objects, clone() apart
MaxSteps == 1
\* most charge states of an engine state
MaxCharge == 2

VARIABLES
    machine,    \* the FLAME machine: its global section and its elements
    query,      \* the last get_element call: its arguments and its result
    fline,      \* patch mode: f.readlines() of the original file
    n,          \* patch mode: the line cursor
    lines,      \* patch mode: the output lines
    pc,         \* patch mode: "idle", "scan" (outer loop), "skip" (continuation
                \* loop), "done" (lines complete) or "failed" (None returned)
    origin,     \* history: origin[j] is the number of the original line that
                \* output line j was made from
    skipped,    \* history: the original lines consumed by the continuation loop
    heap,       \* the engine's State objects, by handle (1, 2, ...)
    objs,       \* the BeamState objects: objs[o] is the handle o._states, 0
                \* while o does not exist
    steps,      \* the number of calls made on the BeamState objects
    last,       \* history: the last call on a BeamState object, its arguments and
                \* whether it raised
    srcconf     \* the source configuration the caller holds: None (some = FALSE)
                \* or a dict with index and properties

lookupVars == <<machine, query>>
patchVars == <<fline, n, lines, pc, origin, skipped>>
beamVars == <<heap, objs, steps, last, srcconf>>
vars == <<machine, query, fline, n, lines, pc, origin, skipped, heap, objs, steps, last, srcconf>>

\* no generate_latfile call is under way
IdlePatch ==
    /\ fline = <<>>
    /\ n = 0
    /\ lines = <<>>
    /\ pc = "idle"
    /\ origin = <<>>
    /\ skipped = {}

\* the float 0.0 (see Numbers below) and an optional float that is None
Zero    == [num |-> 0, den |-> 1, exp |-> 0]
Nothing == NoneOf(Zero)

\* a coordinate argument is a string (CoorS) or a number (CoorI)
CoorS(t) == [str |-> TRUE, name |-> t, idx |-> 0]
CoorI(k) == [str |-> FALSE, name |-> "", idx |-> k]

\* no source configuration (None)
NoSource == [some |-> FALSE, index |-> 0, properties |-> <<>>]

\* no call has been made on a BeamState object.  The fields s, bmstate,
\* machine and latfile are the arguments of the constructor: the handle of a
\* state (0 for None), the name of a BeamState ("" for None), the number of a
\* machine (0 for None) and a file name ("" for None)
\* The fields start, end, latfile and out are the arguments of
\* generate_latfile (out: a stream was given), retval and written what it
\* returned and what each target received
\* The fields index, element and econf are the arguments of insert_element
\* (econf: the arguments came as an element configuration), py the Python
\* running it and new_m the machine it returned
\* The fields from_element, to_element and monitor are the arguments of run
\* and propagate, rs the engine state of the BeamState returned and r the
\* element indices of the results
NoCall ==
    [op |-> "none", obj |-> "", raised |-> FALSE, name |-> "", coor |-> "", cs |-> 0,
     alpha |-> Nothing, beta |-> Nothing, rmssize |-> Nothing, emittance |-> Nothing,
     nemittance |-> Nothing, coor1 |-> CoorI(0), coor2 |-> CoorI(0), value |-> Zero,
     before |-> NoSource, again |-> FALSE, reported |-> FALSE, result |-> Nothing,
     s |-> 0, bmstate |-> "", machine |-> 0, latfile |-> "", npropagate |-> 0,
     start |-> [kind |-> "none", idx |-> 0, name |-> <<>>],
     end |-> [kind |-> "none", idx |-> 0, name |-> <<>>], out |-> FALSE,
     retval |-> NoneOf(""),
     written |-> [out |-> NoneSeq, file |-> NoneSeq, stdout |-> NoneSeq],
     py |-> 0, index |-> [kind |-> "none", idx |-> 0, name |-> <<>>],
     element |-> NoneOf([name |-> <<>>, type |-> <<>>, props |-> <<>>]),
     new_m |-> NoneOf([globals |-> <<>>, elements |-> <<>>]), econf |-> FALSE,
     from_element |-> [kind |-> "none", idx |-> 0, name |-> <<>>],
     to_element |-> [kind |-> "none", idx |-> 0, name |-> <<>>],
     monitor |-> "none", rs |-> 0, r |-> {}]

\* no BeamState object exists
IdleBeam ==
    /\ heap = <<>>
    /\ objs = [ms |-> 0, cl |-> 0]
    /\ steps = 0
    /\ last = NoCall
    /\ srcconf = NoSource

\* Text is a sequence of one-character strings: element names, element
\* types, property keys and the lines of a lattice file.
NameS  == <<"S">>
NameD1 == <<"D", "1">>
NameB1 == <<"B", "1">>
NameD2 == <<"D", "2">>
NameB2 == <<"B", "2">>
NameZZ == <<"Z", "Z">>
NameEmpty == <<>>

T_source == <<"s", "o", "u", "r", "c", "e">>
T_drift  == <<"d", "r", "i", "f", "t">>
T_bpm    == <<"b", "p", "m">>
T_nope   == <<"n", "o", "p", "e">>
T_stripper == <<"s", "t", "r", "i", "p", "p", "e", "r">>

K_name             == <<"n", "a", "m", "e">>
K_type             == <<"t", "y", "p", "e">>
K_sim_type         == <<"s", "i", "m", "_", "t", "y", "p", "e">>
K_Eng_Data_Dir     == <<"E", "n", "g", "_", "D", "a", "t", "a", "_", "D", "i", "r">>
K_IonEk            == <<"I", "o", "n", "E", "k">>
K_IonEs            == <<"I", "o", "n", "E", "s">>
K_NCharge          == <<"N", "C", "h", "a", "r", "g", "e">>
K_IonChargeStates  == <<"I", "o", "n", "C", "h", "a", "r", "g", "e", "S", "t", "a", "t", "e", "s">>
K_vector_variable  == <<"v", "e", "c", "t", "o", "r", "_", "v", "a", "r", "i", "a", "b", "l", "e">>
K_matrix_variable  == <<"m", "a", "t", "r", "i", "x", "_", "v", "a", "r", "i", "a", "b", "l", "e">>
K_P0               == <<"P", "0">>
K_S0               == <<"S", "0">>
K_P0_1             == <<"P", "1">>
K_S0_1             == <<"S", "1">>
K_L                == <<"L">>

\* A property value of the engine's configuration: a float (here a small
\* natural k standing for k.0), a string, or a numeric array
Num(k) == [kind |-> "num", n |-> k, s |-> <<>>, a |-> <<>>]
Str(t) == [kind |-> "str", n |-> 0, s |-> t, a |-> <<>>]
Arr(x) == [kind |-> "arr", n |-> 0, s |-> <<>>, a |-> x]

\* the lattice-global section of Machine.conf(): every top-level assignment of
\* the lattice file, the beam parameters of the source among them
Globals0 ==
    (K_sim_type :> Str(<<"M">>)) @@ (K_Eng_Data_Dir :> Str(<<"d">>))
    @@ (K_IonEk :> Num(1)) @@ (K_IonEs :> Num(2))
    @@ (K_NCharge :> Arr(<<3>>)) @@ (K_IonChargeStates :> Arr(<<4>>))
    @@ (K_P0 :> Arr(<<1, 2, 3, 4, 5, 6, 1>>))
    @@ (K_S0 :> Arr([k \in 1 .. 49 |-> IF k % 7 = 0 \/ k > 42 THEN 0 ELSE k % 5]))

SourceProps == (K_vector_variable :> Str(<<"P">>)) @@ (K_matrix_variable :> Str(<<"S">>))
NoProps     == [k \in {} |-> Num(0)]

\* A machine as Machine(latfile) yields it: Python's element index i is
\* position i+1 of elements; props holds the keys the element declares itself.
Lattice0 ==
    [globals |-> Globals0,
     elements |->
       << [name |-> NameS,  type |-> T_source, props |-> SourceProps],
          [name |-> NameD1, type |-> T_drift,  props |-> (K_L :> Num(1))],
          [name |-> NameB1, type |-> T_bpm,    props |-> NoProps],
          [name |-> NameD2, type |-> T_drift,  props |-> (K_L :> Num(2))],
          [name |-> NameB2, type |-> T_bpm,    props |-> NoProps] >>]

\* the same lattice with one element name used twice (names need not be unique)
Lattice1 ==
    [globals |-> Globals0,
     elements |->
       << [name |-> NameS,  type |-> T_source, props |-> SourceProps],
          [name |-> NameD1, type |-> T_drift,  props |-> (K_L :> Num(1))],
          [name |-> NameB1, type |-> T_bpm,    props |-> NoProps],
          [name |-> NameD1, type |-> T_drift,  props |-> (K_L :> Num(1))],
          [name |-> NameB2, type |-> T_bpm,    props |-> NoProps] >>]

\* len(m) elements, indexed from 0
Indices(m) == 0 .. (Len(m.elements) - 1)
Elem(m, i) == m.elements[i + 1]

\* ------------------------------------------------------------------------
\* Element lookup: the code
\* ------------------------------------------------------------------------
\* m.find(name=n): indices of the elements called n
find_name(m, nm) == {i \in Indices(m) : Elem(m, i).name = nm}

\* m.find(type=t): indices of the elements of type t
find_type(m, t) == {i \in Indices(m) : Elem(m, i).type = t}

\* rp.search(name) for a pattern without metacharacters: the pattern occurs
\* somewhere in the name (search, not full match)
re_search(pattern, name) ==
    \E k \in 0 .. (Len(name) - Len(pattern)) :
        SubSeq(name, k + 1, k + Len(pattern)) = pattern

\* get_names_by_pattern: the names matching the pattern, None when there is none
get_names_by_pattern(m, pattern) ==
    LET m_names == {Elem(m, i).name : i \in {j \in Indices(m) : re_search(pattern, Elem(m, j).name)}}
    IN  IF m_names # {} THEN Some(m_names) ELSE NoneSet

\* flatten(get_index_by_name(names, rtype='list'))
get_index_by_name(m, names) == UNION {find_name(m, nm) : nm \in names}

\* flatten(get_index_by_type(types, rtype='list'))
get_index_by_type(m, types) == UNION {find_type(m, t) : t \in types}

\* get_intersection with an empty value intersected like any other (the
\* 'or v == []' test left out)
RECURSIVE get_intersection_strict(_, _)
get_intersection_strict(s, kws) ==
    IF kws = <<>> THEN s
    ELSE LET v == Head(kws)
         IN  IF s = {}
             THEN get_intersection_strict(s \cup v, Tail(kws))
             ELSE get_intersection_strict(s \cap v, Tail(kws))

\* get_intersection(**kws): kws is the sequence of the keyword values in call
\* order; s starts empty, a value is united into s while s is empty or the
\* value is empty, and intersected otherwise
RECURSIVE get_intersection_from(_, _)
get_intersection_from(s, kws) ==
    IF kws = <<>> THEN s
    ELSE LET v == Head(kws)
         IN  IF s = {} \/ v = {}
             THEN get_intersection_from(s \cup v, Tail(kws))
             ELSE get_intersection_from(s \cap v, Tail(kws))

get_intersection(kws) == get_intersection_from({}, kws)

\* the three index lists get_element hands to get_intersection
idx_from_index(index) == IF index.some THEN index.v ELSE {}

names_of(m, name, pattern) ==
    LET _name_list == IF pattern.some THEN get_names_by_pattern(m, pattern.v) ELSE NoneSet
        names0 == IF _name_list.some THEN _name_list.v ELSE {}
    IN  IF name.some THEN names0 \cup name.v ELSE names0

idx_from_name(m, name, pattern) ==
    LET names == names_of(m, name, pattern)
    IN  IF names # {} THEN get_index_by_name(m, names) ELSE {}

idx_from_type(m, type) == IF type.some THEN get_index_by_type(m, type.v) ELSE {}

\* get_element(index, name, type, _pattern=pattern): the indices of the
\* returned elements ([] when nothing is left)
get_element(m, index, name, type, pattern) ==
    get_intersection(<< idx_from_index(index),
                        idx_from_name(m, name, pattern),
                        idx_from_type(m, type) >>)

\* ------------------------------------------------------------------------
\* Python text primitives
\* ------------------------------------------------------------------------
NL == "\n"

\* l.find(k): index from 0 of the first occurrence of k in l, -1 when absent
Find(l, k) ==
    LET cand == {i \in 0 .. (Len(l) - Len(k)) : SubSeq(l, i + 1, i + Len(k)) = k}
    IN  IF cand = {} THEN -1 ELSE CHOOSE i \in cand : \A j \in cand : i <= j

\* l[a:b] for 0 <= a and 0 <= b <= len(l)
Slice(l, a, b) == SubSeq(l, a + 1, b)

\* l[0:-1]
DropLast(l) == SubSeq(l, 1, Len(l) - 1)

\* l.replace(' ', '')
RemoveSpaces(l) == SelectSeq(l, LAMBDA c : c # " ")

RECURSIVE Concat(_)
Concat(ss) == IF ss = <<>> THEN <<>> ELSE Head(ss) \o Concat(Tail(ss))

\* sep.join(ss)
RECURSIVE Join(_, _)
Join(sep, ss) ==
    IF ss = <<>> THEN <<>>
    ELSE IF Len(ss) = 1 THEN ss[1]
    ELSE ss[1] \o sep \o Join(sep, Tail(ss))

\* str(x) of the float k.0
DigitChars == <<"0", "1", "2", "3", "4", "5", "6", "7", "8", "9">>
StrNum(k) == <<DigitChars[k + 1], ".", "0">>

\* str(v.tolist()) of a numeric array
StrList(a) == <<"[">> \o Join(<<",", " ">>, [i \in 1 .. Len(a) |-> StrNum(a[i])]) \o <<"]">>

\* the value formatting of patch mode: array, string, anything else
StrValue(v) ==
    IF v.kind = "arr" THEN StrList(v.a)
    ELSE IF v.kind = "str" THEN <<"\"">> \o v.s \o <<"\"">>
    ELSE StrNum(v.n)

\* code point order of the characters property keys are made of
AsciiOrder == <<"0", "1", "2", "3", "4", "5", "6", "7", "8", "9", "A", "B", "C", "D", "E", "F", "G", "H", "I", "J", "K", "L", "M", "N", "O", "P", "Q", "R", "S", "T", "U", "V", "W", "X", "Y", "Z", "_", "a", "b", "c", "d", "e", "f", "g", "h", "i", "j", "k", "l", "m", "n", "o", "p", "q", "r", "s", "t", "u", "v", "w", "x", "y", "z">>
Ord(c) == CHOOSE i \in 1 .. Len(AsciiOrder) : AsciiOrder[i] = c

RECURSIVE StrLess(_, _)
StrLess(a, b) ==
    IF a = <<>> THEN b # <<>>
    ELSE IF b = <<>> THEN FALSE
    ELSE IF a[1] = b[1] THEN StrLess(Tail(a), Tail(b))
    ELSE Ord(a[1]) < Ord(b[1])

\* sorted(keys)
RECURSIVE sorted(_)
sorted(S) ==
    IF S = {} THEN <<>>
    ELSE LET lo == CHOOSE x \in S : \A y \in S \ {x} : StrLess(x, y)
         IN  <<lo>> \o sorted(S \ {lo})

\* ------------------------------------------------------------------------
\* The engine's configuration of one element
\* ------------------------------------------------------------------------
\* m.conf(i): the keys the element declares, its name and type, and every
\* lattice-global key it does not override
conf(m, i) ==
    LET e == Elem(m, i)
    IN  (K_name :> Str(e.name)) @@ (K_type :> Str(e.type)) @@ e.props @@ m.globals

\* m.find(...)[0]
First(S) == CHOOSE i \in S : \A j \in S : i <= j

\* get_all_names(_machine=m)
get_all_names(m) == {Elem(m, i).name : i \in Indices(m)}

\* mc_src = m.conf(m.find(type='source')[0]) (generate_latfile without state)
mc_src_of(m) == conf(m, First(find_type(m, T_source)))

\* ------------------------------------------------------------------------
\* Lattice serializer, patch mode: the code
\* ------------------------------------------------------------------------
\* gps(l): first position of each token; '#' defaults to the end of the line
gps(l) ==
    LET h == Find(l, <<"#">>)
    IN  [hash  |-> IF h = -1 THEN Len(l) ELSE h,
         colon |-> Find(l, <<":", " ">>),
         semi  |-> Find(l, <<";">>),
         eq    |-> Find(l, <<"=">>),
         comma |-> Find(l, <<",">>)]

\* the bracketed 7-row block of a matrix variable
MatrixRow(a, i) ==
    <<" ", " ", " ", " ">> \o Concat([j \in 1 .. 7 |-> StrNum(a[7 * i + j]) \o <<",", " ">>]) \o <<NL>>
MatrixText(bp, a) ==
    LET nl == bp \o <<" ", "=", " ", "[", "\n">> \o Concat([i \in 1 .. 7 |-> MatrixRow(a, i - 1)])
    IN  SubSeq(nl, 1, Len(nl) - 3) \o <<"]">>

\* outcome of the rewriting of one line: nl is None (keep the line), a new
\* text, or the rewriting raised (generate_latfile returns None)
KeepLine   == [raised |-> FALSE, some |-> FALSE, nl |-> <<>>]
NewLine(t) == [raised |-> FALSE, some |-> TRUE, nl |-> t]
Raised     == [raised |-> TRUE, some |-> FALSE, nl |-> <<>>]

\* an assignment line whose left-hand side bp is a key of mc_src
rewrite_assignment(mc_src, l, bp) ==
    IF bp = K_Eng_Data_Dir THEN NewLine(DropLast(l))
    ELSE IF K_vector_variable \notin DOMAIN mc_src THEN Raised
    ELSE IF mc_src[K_vector_variable] = Str(DropLast(bp))
    THEN IF mc_src[bp].kind = "arr"
         THEN NewLine(bp \o <<" ", "=", " ">> \o StrList(mc_src[bp].a))
         ELSE Raised
    ELSE IF K_matrix_variable \notin DOMAIN mc_src THEN Raised
    ELSE IF mc_src[K_matrix_variable] = Str(DropLast(bp))
    THEN IF mc_src[bp].kind = "arr" /\ Len(mc_src[bp].a) >= 49
         THEN NewLine(MatrixText(bp, mc_src[bp].a))
         ELSE Raised
    ELSE NewLine(bp \o <<" ", "=", " ">> \o StrValue(mc_src[bp]))

\* a declaration line of the live element called name
rewrite_declaration(m, mc_src, name) ==
    LET c == conf(m, First(find_name(m, name)))
        keys == (DOMAIN c \ DOMAIN mc_src)
                \cup (IF c[K_type] = Str(T_source) THEN {K_vector_variable, K_matrix_variable} ELSE {})
                \cup (IF c[K_type] = Str(T_stripper) THEN {K_IonChargeStates, K_NCharge} ELSE {})
        ks == sorted(keys)
    IN  IF keys \subseteq DOMAIN c
        THEN NewLine(c[K_name].s \o <<":", " ">> \o c[K_type].s
                     \o Concat([i \in 1 .. Len(ks) |-> <<",", " ">> \o ks[i] \o <<" ", "=", " ">> \o StrValue(c[ks[i]])]))
        ELSE Raised

\* nl for the line l (already without its last character), lines 209-261
rewrite_line(m, mc_src, names, l) ==
    LET p == gps(l)
    IN  IF (p.eq # -1 /\ p.eq < p.hash)
           /\ (p.colon = -1 \/ (p.eq < p.colon /\ p.colon < p.hash))
        THEN LET bp == RemoveSpaces(Slice(l, 0, p.eq))
             IN  IF bp \in DOMAIN mc_src THEN rewrite_assignment(mc_src, l, bp)
                 ELSE KeepLine
        ELSE IF p.colon # -1 /\ p.colon < p.hash
        THEN LET name == RemoveSpaces(Slice(l, 0, p.colon))
             IN  IF name \in names THEN rewrite_declaration(m, mc_src, name)
                 ELSE KeepLine
        ELSE KeepLine

\* ------------------------------------------------------------------------
\* Element lookup: inputs and actions
\* ------------------------------------------------------------------------
IndexArgs   == {NoneSet} \cup {Some(x) : x \in {{}, {1}, {1, 2}, {0, 1, 2, 3, 4}}}
NameArgs    == {NoneSet} \cup {Some(x) : x \in {{NameEmpty}, {NameZZ}, {NameD1}, {NameB1},
                                                 {NameD1, NameB1}}}
TypeArgs    == {NoneSet} \cup {Some(x) : x \in {{T_bpm}, {T_drift}, {T_nope}}}
PatternArgs == {NoneSeq} \cup {Some(x) : x \in {<<"B">>, <<"1">>, <<"Z">>}}

NoQuery == [called |-> FALSE, index |-> NoneSet, name |-> NoneSet, type |-> NoneSet,
            pattern |-> NoneSeq, ret |-> {}]

\* no get_element call has been made
IdleElem ==
    /\ machine = Lattice0
    /\ query = NoQuery

InitElem ==
    /\ machine \in {Lattice0, Lattice1}
    /\ query = NoQuery
    /\ IdlePatch
    /\ IdleBeam

\* one call get_element(_machine=machine, index=, name=, type=, _pattern=)
GetElement ==
    /\ \E index \in IndexArgs, name \in NameArgs, type \in TypeArgs, pattern \in PatternArgs :
          query' = [called |-> TRUE, index |-> index, name |-> name, type |-> type,
                    pattern |-> pattern,
                    ret |-> get_element(machine, index, name, type, pattern)]
    /\ UNCHANGED <<machine, fline, n, lines, pc, origin, skipped, beamVars>>

\* ------------------------------------------------------------------------
\* Lattice serializer, patch mode: inputs and actions
\* ------------------------------------------------------------------------
\* the lines an original file is made of, without their newline
LinePool ==
    { <<>>,
      <<" ", " ">>,
      <<"#", " ", "c", ":", " ", "d", " ", "=", " ", "1", ";">>,
      <<"I", "o", "n", "E", "k", " ", "=", " ", "5", ".", "0", ";">>,
      <<"I", "o", "n", "E", "k", " ", "=", " ", "5", ".", "0", ";", " ", "#", " ", "n", ":", " ", "1">>,
      <<"E", "n", "g", "_", "D", "a", "t", "a", "_", "D", "i", "r", " ", "=", " ", "\"", "x", "\"", ";", " ", "#", " ", "p">>,
      <<"D", "1", ":", " ", "d", "r", "i", "f", "t", ",", " ", "L", " ", "=", " ", "9", ".", "0", ";", " ", "#", " ", "d">>,
      <<"D", "1", ":", " ", "d", "r", "i", "f", "t", ",">>,
      <<" ", " ", "L", " ", "=", " ", "9", ".", "0", ";">>,
      <<"D", "1", ":", " ", "d", "r", "i", "f", "t", ",", " ", "#", " ", "a", ";", "b">>,
      <<"c", ":", " ", "L", "I", "N", "E", " ", "=", " ", "(", "S", ",", " ", "D", "1", ")", ";">>,
      <<"S", "0", " ", "=", " ", "[">> }

\* the files of at most maxlines lines: every line ends with a newline, except
\* possibly the last one, which is then not empty
OriginalFiles(maxlines) ==
    UNION { { [i \in 1 .. k |-> IF i < k \/ term THEN c[i] \o <<NL>> ELSE c[i]] :
                c \in {d \in [1 .. k -> LinePool] : term \/ d[k] # <<>>} } :
            k \in 1 .. maxlines, term \in BOOLEAN }

\* generate_latfile(machine, original=...) up to the loop: the file is read,
\* the cursor is at its first line
InitPatch ==
    /\ machine \in {Lattice0, Lattice1}
    /\ query = NoQuery
    /\ fline \in OriginalFiles(MaxLines)
    /\ n = 0
    /\ lines = <<>>
    /\ pc = "scan"
    /\ origin = <<>>
    /\ skipped = {}
    /\ IdleBeam

\* one iteration of the outer loop (lines 201-277) up to the continuation loop
ScanLine ==
    /\ pc = "scan"
    /\ n < Len(fline)
    /\ LET l0 == fline[n + 1]
           rl == RemoveSpaces(l0)
           l  == DropLast(l0)
       IN  IF rl = <<>>
           THEN \* rl[0] raises IndexError
                /\ pc' = "failed"
                /\ UNCHANGED <<n, lines, origin>>
           ELSE IF rl = <<NL>> \/ rl[1] = "#"
           THEN /\ lines' = Append(lines, l)
                /\ origin' = Append(origin, n + 1)
                /\ n' = n + 1
                /\ pc' = "scan"
           ELSE LET r == rewrite_line(machine, mc_src_of(machine), get_all_names(machine), l)
                    p == gps(l)
                IN  IF r.raised
                    THEN /\ pc' = "failed"
                         /\ UNCHANGED <<n, lines, origin>>
                    ELSE IF ~r.some
                    THEN /\ lines' = Append(lines, l)
                         /\ origin' = Append(origin, n + 1)
                         /\ n' = n + 1
                         /\ pc' = "scan"
                    ELSE /\ lines' = Append(lines, r.nl \o <<";", " ">> \o Slice(l, p.hash, Len(l)))
                         /\ origin' = Append(origin, n + 1)
                         /\ IF p.semi = -1
                            THEN pc' = "skip" /\ n' = n
                            ELSE pc' = "scan" /\ n' = n + 1
    /\ UNCHANGED <<machine, query, fline, skipped, beamVars>>

\* a continuation loop without its n += 1: it reads the same line again
SkipLine_same_line ==
    /\ pc = "skip"
    /\ IF n + 1 < Len(fline)
       THEN LET tp == gps(fline[n + 2])
            IN  /\ skipped' = skipped \cup {n + 2}
                /\ IF tp.semi # -1 /\ tp.semi < tp.hash
                   THEN pc' = "scan" /\ n' = n + 2
                   ELSE pc' = "skip" /\ n' = n
       ELSE /\ pc' = "scan"
            /\ n' = n + 2
            /\ UNCHANGED skipped
    /\ UNCHANGED <<machine, query, fline, lines, origin, beamVars>>

\* one iteration of the continuation loop (lines 269-276); the iteration that
\* ends the loop also does the outer loop's n += 1 (line 277)
SkipLine ==
    /\ pc = "skip"
    /\ IF n + 1 < Len(fline)
       THEN LET tp == gps(fline[n + 2])
            IN  /\ skipped' = skipped \cup {n + 2}
                /\ IF tp.semi # -1 /\ tp.semi < tp.hash
                   THEN pc' = "scan" /\ n' = n + 2
                   ELSE pc' = "skip" /\ n' = n + 1
       ELSE /\ pc' = "scan"
            /\ n' = n + 2
            /\ UNCHANGED skipped
    /\ UNCHANGED <<machine, query, fline, lines, origin, beamVars>>

\* the loop is left: lines is complete
ScanDone ==
    /\ pc = "scan"
    /\ n >= Len(fline)
    /\ pc' = "done"
    /\ UNCHANGED <<machine, query, fline, n, lines, origin, skipped, beamVars>>

NextPatch == ScanLine \/ SkipLine \/ ScanDone

\* ------------------------------------------------------------------------
\* Element lookup: properties
\* ------------------------------------------------------------------------
\* what each filter of the last query selects, filter by filter
SelByIndex == query.index.v
SelByName  == {i \in Indices(machine) : Elem(machine, i).name \in query.name.v}
SelByType  == {i \in Indices(machine) : Elem(machine, i).type \in query.type.v}
SelByPattern == {i \in Indices(machine) : re_search(query.pattern.v, Elem(machine, i).name)}

\* the index sets of the supplied filters that match at least one element
MatchingFilters ==
    {S \in ( (IF query.index.some THEN {SelByIndex} ELSE {})
             \cup (IF query.name.some THEN {SelByName} ELSE {})
             \cup (IF query.type.some THEN {SelByType} ELSE {}) ) : S # {}}

InterAll(F) == {i \in UNION F : \A S \in F : i \in S}

\* a supplied name, type or pattern filter that matches no element
NameUnmatched    == query.name.some /\ SelByName = {}
TypeUnmatched    == query.type.some /\ SelByType = {}
PatternUnmatched == query.pattern.some /\ SelByPattern = {}

\* C1: get_element(index, name, type) returns exactly the elements in the
\* intersection of the index sets of all supplied filters that match at least
\* one element, and the empty list when no filter is supplied.
C1_IntersectionOfFilters ==
    (query.called /\ ~query.pattern.some) =>
        query.ret = InterAll(MatchingFilters)

\* C2 as claimed: a supplied filter that matches no element makes the whole
\* query return the empty list.
C2_UnmatchedFilterEmptiesQuery ==
    (query.called /\ (NameUnmatched \/ TypeUnmatched \/ PatternUnmatched)) =>
        query.ret = {}

\* what the filters that are left select once the unmatched ones are set
\* aside: the index filter, the names (given or found by the pattern), the type
RemainingFilters ==
    {S \in ( (IF query.index.some THEN {SelByIndex} ELSE {})
             \cup {  (IF query.name.some THEN SelByName ELSE {})
                   \cup (IF query.pattern.some THEN SelByPattern ELSE {}) }
             \cup (IF query.type.some THEN {SelByType} ELSE {}) ) : S # {}}

\* all three of index, names and type select something
ThreeFiltersRemain ==
    /\ query.index.some /\ SelByIndex # {}
    /\ (query.name.some /\ SelByName # {}) \/ (query.pattern.some /\ SelByPattern # {})
    /\ query.type.some /\ SelByType # {}

\* C2 amended: a supplied filter that matches no element is ignored like a
\* filter that was not supplied: the query returns the elements selected by
\* the filters that are left (the intersection of their index sets when one or
\* two of index, names and type are left), not the empty list.
C2_UnmatchedFilterIgnored ==
    (query.called /\ (NameUnmatched \/ TypeUnmatched \/ PatternUnmatched)
                  /\ ~ThreeFiltersRemain) =>
        query.ret = InterAll(RemainingFilters)

\* an index filter that matches together with an unknown name: the elements
\* of the index filter are returned
C2_Witness ==
    /\ query.called
    /\ query.index.some /\ SelByIndex # {}
    /\ NameUnmatched
    /\ ~query.type.some /\ ~query.pattern.some
    /\ query.ret = SelByIndex

\* C3: with both name and _pattern given, every returned element has one of
\* the given names and a name matching the pattern.
C3_NameAndPatternConjunctive ==
    (query.called /\ query.name.some /\ query.pattern.some) =>
        \A i \in query.ret :
            /\ Elem(machine, i).name \in query.name.v
            /\ re_search(query.pattern.v, Elem(machine, i).name)

\* ------------------------------------------------------------------------
\* Lattice serializer, patch mode: properties
\* ------------------------------------------------------------------------
\* the bytes of an original line, its trailing newline excepted
Content(line) ==
    IF line # <<>> /\ line[Len(line)] = NL THEN DropLast(line) ELSE line

\* the part of an original line before its comment
CommentFree(line) ==
    LET c == Content(line)
        h == Find(c, <<"#">>)
    IN  IF h = -1 THEN c ELSE Slice(c, 0, h)

\* an assignment whose left-hand side is a key of the source property map
IsLiveAssignment(line) ==
    LET b  == CommentFree(line)
        eq == Find(b, <<"=">>)
        co == Find(b, <<":", " ">>)
    IN  /\ eq # -1
        /\ (co = -1 \/ eq < co)
        /\ RemoveSpaces(Slice(b, 0, eq)) \in DOMAIN mc_src_of(machine)

\* a declaration whose name is a live element name
IsLiveDeclaration(line) ==
    LET b  == CommentFree(line)
        eq == Find(b, <<"=">>)
        co == Find(b, <<":", " ">>)
    IN  /\ co # -1
        /\ (eq = -1 \/ co < eq)
        /\ RemoveSpaces(Slice(b, 0, co)) \in get_all_names(machine)

\* original line k is neither rewritten nor a continuation line of a
\* rewritten statement
Unpatchable(k) ==
    /\ k \notin skipped
    /\ ~IsLiveAssignment(fline[k])
    /\ ~IsLiveDeclaration(fline[k])

\* C4: in patch mode every original line that is not an assignment to a key
\* of the source property map and not a declaration of a live element is in
\* the output byte-identical, the last line without trailing newline included;
\* a file without patchable line is reproduced unchanged.
C4_UnpatchableLinesVerbatim ==
    (pc = "done") =>
        /\ \A k \in 1 .. Len(fline) :
              Unpatchable(k) =>
                  \E j \in 1 .. Len(lines) : origin[j] = k /\ lines[j] = Content(fline[k])
        /\ (\A k \in 1 .. Len(fline) : Unpatchable(k)) =>
              lines = [k \in 1 .. Len(fline) |-> Content(fline[k])]

\* ------------------------------------------------------------------------
\* Numbers
\* ------------------------------------------------------------------------
\* A float is modelled by the exact value that the arithmetic of state.py
\* computes: the record [num, den, exp] stands for num/den * 10^exp, with
\* gcd(num, den) = 1 and neither num nor den divisible by 5 (so that every
\* value has one record and the unit factors 1e-3 and 1e-6 are exponents).
\* den = 0 marks a value that is not a finite number (nan, inf); exp = 1 with
\* den = 0 marks the square root of a number that is not the square of a
\* rational.
RECURSIVE GCD(_, _)
GCD(a, b) == IF b = 0 THEN a ELSE GCD(b, a % b)

Abs(k) == IF k < 0 THEN -k ELSE k

NaN     == [num |-> 0, den |-> 0, exp |-> 0]
Surd    == [num |-> 0, den |-> 0, exp |-> 1]
IsFinite(a) == a.den # 0

RECURSIVE Norm(_, _, _)
Norm(nn, dd, ee) ==
    IF dd = 0 THEN NaN
    ELSE IF nn = 0 THEN Zero
    ELSE IF dd < 0 THEN Norm(-nn, -dd, ee)
    ELSE IF nn % 5 = 0 THEN Norm(nn \div 5, 2 * dd, ee + 1)
    ELSE IF dd % 5 = 0 THEN Norm(2 * nn, dd \div 5, ee - 1)
    ELSE LET g == GCD(Abs(nn), dd)
         IN  [num |-> nn \div g, den |-> dd \div g, exp |-> ee]

\* the float literal nn/dd, the integer k and the literal 1e<k>
Frac(nn, dd) == Norm(nn, dd, 0)
Int2Q(k)     == Norm(k, 1, 0)
E10(k)       == [num |-> 1, den |-> 1, exp |-> k]

RECURSIVE Pow10(_)
Pow10(k) == IF k = 0 THEN 1 ELSE 10 * Pow10(k - 1)

\* a * b
QMul(a, b) ==
    IF a.den = 0 THEN a ELSE IF b.den = 0 THEN b
    ELSE Norm(a.num * b.num, a.den * b.den, a.exp + b.exp)

\* a / b of numpy floats: a finite number, or nan/inf when b is 0
QDiv(a, b) ==
    IF a.den = 0 THEN a ELSE IF b.den = 0 THEN b
    ELSE IF b.num = 0 THEN NaN
    ELSE Norm(a.num * b.den, a.den * b.num, a.exp - b.exp)

\* a + b
QAdd(a, b) ==
    IF a.den = 0 THEN a ELSE IF b.den = 0 THEN b
    ELSE IF a.num = 0 THEN b ELSE IF b.num = 0 THEN a
    ELSE LET m == IF a.exp < b.exp THEN a.exp ELSE b.exp
         IN  Norm(a.num * Pow10(a.exp - m) * b.den + b.num * Pow10(b.exp - m) * a.den, a.den * b.den, m)

\* -a and a - b
QNeg(a)    == IF a.den = 0 THEN a ELSE [a EXCEPT !.num = -a.num]
QSub(a, b) == QAdd(a, QNeg(b))

\* the integer square root of k >= 0, by bisection of lo .. hi
RECURSIVE RootIn(_, _, _)
RootIn(k, lo, hi) ==
    IF lo >= hi THEN lo
    ELSE LET mid == (lo + hi + 1) \div 2
         IN  IF mid * mid <= k THEN RootIn(k, mid, hi) ELSE RootIn(k, lo, mid - 1)
ISqrt(k)    == RootIn(k, 0, IF k < 46340 THEN k ELSE 46340)
IsSquare(k) == ISqrt(k) * ISqrt(k) = k

\* np.sqrt(a): nan for a negative number
QSqrt(a) ==
    IF a.den = 0 THEN a
    ELSE IF a.num < 0 THEN NaN
    ELSE IF a.num = 0 THEN Zero
    ELSE IF a.exp % 2 = 0 /\ IsSquare(a.num) /\ IsSquare(a.den)
         THEN [num |-> ISqrt(a.num), den |-> ISqrt(a.den), exp |-> a.exp \div 2]
         ELSE Surd

\* ------------------------------------------------------------------------
\* BeamState: the engine's state object and the property table
\* ------------------------------------------------------------------------
\* The engine's State object is a record of its attributes.  Arrays are
\* sequences indexed from 1: moment0[r + 1][k + 1] is numpy's moment0[r, k],
\* moment1[r + 1][c + 1][k + 1] is moment1[r, c, k] (k the charge state).

\* elementwise numpy arithmetic on arrays over the charge states
VSqrt(u)     == [k \in DOMAIN u |-> QSqrt(u[k])]
VMul(u, a)   == [k \in DOMAIN u |-> QMul(u[k], a)]
VScale(a, u) == [k \in DOMAIN u |-> QMul(a, u[k])]
VDiv(u, v)   == [k \in DOMAIN u |-> QDiv(u[k], v[k])]
VNeg(u)      == [k \in DOMAIN u |-> QNeg(u[k])]

\* moment1[r, c, :]
Along(t, r, c) == t[r + 1][c + 1]
\* moment1[:, :, k]
Across(t, k) == [r \in 1 .. 7 |-> [c \in 1 .. 7 |-> t[r][c][k + 1]]]
\* np.linalg.det(mat[r:r+2, r:r+2])
det(mat, r) ==
    QSub(QMul(mat[r + 1][r + 1], mat[r + 2][r + 2]), QMul(mat[r + 1][r + 2], mat[r + 2][r + 1]))

\* the properties that getattr/setattr pass on to the engine's state
EngineProps ==
    {"pos", "ref_beta", "ref_bg", "ref_gamma", "ref_IonEk", "ref_IonEs", "ref_IonQ",
     "ref_IonW", "ref_IonZ", "ref_phis", "ref_SampleIonK", "beta", "bg", "gamma",
     "IonEk", "IonEs", "IonQ", "IonW", "IonZ", "phis", "SampleIonK",
     "moment0_env", "moment0_rms", "moment0", "moment1", "moment1_env", "last_caviphi0"}

\* the properties with a setter (the property state is modelled by SetState)
Settable == EngineProps \ {"moment0_rms", "last_caviphi0"}

\* the properties that read one row of moment0, moment0_env or moment0_rms
CenRow == [x0 |-> 0, xp0 |-> 1, y0 |-> 2, yp0 |-> 3, phi0 |-> 4, dEk0 |-> 5]
EnvRow == [x0_env |-> 0, xp0_env |-> 1, y0_env |-> 2, yp0_env |-> 3, phi0_env |-> 4,
           dEk0_env |-> 5]
RmsRow == [x0_rms |-> 0, xp0_rms |-> 1, y0_rms |-> 2, yp0_rms |-> 3, phi0_rms |-> 4,
           dEk0_rms |-> 5]
\* the properties that read the square root of one diagonal of moment1
RmsAll == [xrms_all |-> 0, xprms_all |-> 1, yrms_all |-> 2, yprms_all |-> 3,
           phirms_all |-> 4, dEkrms_all |-> 5]

DerivedProps ==
    {"xemittance", "yemittance", "zemittance",
     "xemittance_all", "yemittance_all", "zemittance_all",
     "xnemittance", "ynemittance", "znemittance",
     "xnemittance_all", "ynemittance_all", "znemittance_all",
     "xtwiss_beta", "ytwiss_beta", "ztwiss_beta",
     "xtwiss_beta_all", "ytwiss_beta_all", "ztwiss_beta_all",
     "xtwiss_alpha", "ytwiss_alpha", "ztwiss_alpha",
     "xtwiss_alpha_all", "ytwiss_alpha_all", "ztwiss_alpha_all",
     "couple_xy", "couple_xpy", "couple_xyp", "couple_xpyp",
     "couple_xy_all", "couple_xpy_all", "couple_xyp_all", "couple_xpyp_all"}

PropNames ==
    EngineProps \cup DOMAIN CenRow \cup DOMAIN EnvRow \cup DOMAIN RmsRow \cup DOMAIN RmsAll
        \cup DerivedProps

\* the class dictionary before the decorator runs: every property, named by
\* the function that defines it, with or without a setter
original == [p \in PropNames |-> [fget |-> p, fset |-> p \in Settable]]

_aliases ==
    [xcen_all |-> "x0", ycen_all |-> "y0", xpcen_all |-> "xp0", ypcen_all |-> "yp0",
     zcen_all |-> "phi0", zpcen_all |-> "dEk0", phicen_all |-> "phi0", dEkcen_all |-> "dEk0",
     xrms |-> "x0_rms", yrms |-> "y0_rms", xprms |-> "xp0_rms", yprms |-> "yp0_rms",
     zrms |-> "phi0_rms", zprms |-> "dEk0_rms", phirms |-> "phi0_rms", dEkrms |-> "dEk0_rms",
     zrms_all |-> "phirms_all", zprms_all |-> "dEkrms_all",
     xcen |-> "x0_env", ycen |-> "y0_env", xpcen |-> "xp0_env", ypcen |-> "yp0_env",
     zcen |-> "phi0_env", zpcen |-> "dEk0_env", phicen |-> "phi0_env", dEkcen |-> "dEk0_env",
     cenvector |-> "moment0_env", cenvector_all |-> "moment0", rmsvector |-> "moment0_rms",
     beammatrix_all |-> "moment1", beammatrix |-> "moment1_env",
     xeps |-> "xemittance", yeps |-> "yemittance", zeps |-> "zemittance",
     xeps_all |-> "xemittance_all", yeps_all |-> "yemittance_all", zeps_all |-> "zemittance_all",
     xepsn |-> "xnemittance", yepsn |-> "ynemittance", zepsn |-> "znemittance",
     xepsn_all |-> "xnemittance_all", yepsn_all |-> "ynemittance_all",
     zepsn_all |-> "znemittance_all",
     xtwsb |-> "xtwiss_beta", ytwsb |-> "ytwiss_beta", ztwsb |-> "ztwiss_beta",
     xtwsb_all |-> "xtwiss_beta_all", ytwsb_all |-> "ytwiss_beta_all",
     ztwsb_all |-> "ztwiss_beta_all",
     xtwsa |-> "xtwiss_alpha", ytwsa |-> "ytwiss_alpha", ztwsa |-> "ztwiss_alpha",
     xtwsa_all |-> "xtwiss_alpha_all", ytwsa_all |-> "ytwiss_alpha_all",
     ztwsa_all |-> "ztwiss_alpha_all",
     cxy |-> "couple_xy", cxpy |-> "couple_xpy", cxyp |-> "couple_xyp", cxpyp |-> "couple_xpyp",
     cxy_all |-> "couple_xy_all", cxpy_all |-> "couple_xpy_all", cxyp_all |-> "couple_xyp_all",
     cxpyp_all |-> "couple_xpyp_all"]

\* a decorator that binds every alias to a new property made of the getter
\* alone
alias_getter_only(orig, al) ==
    [nm \in DOMAIN orig \cup DOMAIN al |->
        IF nm \in DOMAIN al THEN [fget |-> orig[al[nm]].fget, fset |-> FALSE] ELSE orig[nm]]

\* the decorator: setattr(aliased_class, alias, original[name]) for every
\* alias; the other attributes of the class dictionary stay
alias(orig, al) ==
    [nm \in DOMAIN orig \cup DOMAIN al |->
        IF nm \in DOMAIN al THEN orig[al[nm]] ELSE orig[nm]]

\* the class dictionary of BeamState
ClassDict == alias(original, _aliases)

\* ------------------------------------------------------------------------
\* BeamState: readers
\* ------------------------------------------------------------------------
\* crd of _couple_index
crd == [x |-> 0, xp |-> 1, y |-> 2, yp |-> 3, z |-> 4, zp |-> 5]

NoIndex == [ok |-> FALSE, c1 |-> 0, c2 |-> 0]

\* _couple_index(coor1, coor2): the indices, or None (ok = FALSE); two
\* arguments that are not both strings go through int()
_couple_index(coor1, coor2) ==
    LET both == coor1.str /\ coor2.str
        c1 == IF both THEN crd[coor1.name] ELSE coor1.idx
        c2 == IF both THEN crd[coor2.name] ELSE coor2.idx
    IN  IF both /\ (coor1.name \notin DOMAIN crd \/ coor2.name \notin DOMAIN crd)
        THEN NoIndex
        ELSE IF c1 = c2 THEN NoIndex
        ELSE [ok |-> TRUE, c1 |-> c1, c2 |-> c2]

\* term = mat[c1, c2]/fac if fac != 0.0 else 0.0
couple_term(x, fac) == IF fac # Zero THEN QDiv(x, fac) ELSE Zero

\* the normalized coupling term of the matrix mat
couple_of(mat, c1, c2) ==
    couple_term(mat[c1 + 1][c2 + 1], QSqrt(QMul(mat[c1 + 1][c1 + 1], mat[c2 + 1][c2 + 1])))

\* get_couple(coor1, coor2, cs) on the engine state s: None or the term
get_couple(s, coor1, coor2, cs) ==
    LET r == _couple_index(coor1, coor2)
    IN  IF ~r.ok THEN NoneOf(Zero)
        ELSE Some(couple_of(IF cs = -1 THEN s.moment1_env ELSE Across(s.moment1, cs),
                            r.c1, r.c2))

\* range(len(self.bg)), from 1
ChargeStates(s) == 1 .. Len(s.bg)

\* getattr(self, nm) is the fget of the property that the class dictionary
\* binds nm to; fget(p, s) is the body of the property defined under the
\* name p, on the engine state s
RECURSIVE fget(_, _)
getattr_(s, nm) == fget(ClassDict[nm].fget, s)

fget(p, s) ==
    CASE p \in EngineProps   -> s[p]
      [] p \in DOMAIN CenRow -> s.moment0[CenRow[p] + 1]
      [] p \in DOMAIN EnvRow -> s.moment0_env[EnvRow[p] + 1]
      [] p \in DOMAIN RmsRow -> s.moment0_rms[RmsRow[p] + 1]
      [] p \in DOMAIN RmsAll -> VSqrt(Along(s.moment1, RmsAll[p], RmsAll[p]))
      [] p = "xemittance" -> QMul(QSqrt(det(s.moment1_env, 0)), E10(3))
      [] p = "yemittance" -> QMul(QSqrt(det(s.moment1_env, 2)), E10(3))
      [] p = "zemittance" -> QSqrt(det(s.moment1_env, 4))
      [] p = "xemittance_all" ->
            [k \in ChargeStates(s) |-> QMul(QSqrt(det(Across(s.moment1, k - 1), 0)), E10(3))]
      [] p = "yemittance_all" ->
            [k \in ChargeStates(s) |-> QMul(QSqrt(det(Across(s.moment1, k - 1), 2)), E10(3))]
      [] p = "zemittance_all" ->
            [k \in ChargeStates(s) |-> QSqrt(det(Across(s.moment1, k - 1), 4))]
      [] p = "xnemittance" -> QMul(getattr_(s, "ref_bg"), getattr_(s, "xeps"))
      [] p = "ynemittance" -> QMul(getattr_(s, "ref_bg"), getattr_(s, "yeps"))
      [] p = "znemittance" -> QMul(getattr_(s, "ref_bg"), getattr_(s, "zeps"))
      [] p = "xnemittance_all" -> VScale(getattr_(s, "ref_bg"), getattr_(s, "xeps_all"))
      [] p = "ynemittance_all" -> VScale(getattr_(s, "ref_bg"), getattr_(s, "yeps_all"))
      [] p = "znemittance_all" -> VScale(getattr_(s, "ref_bg"), getattr_(s, "zeps_all"))
      [] p = "xtwiss_beta" -> QDiv(s.moment1_env[1][1], getattr_(s, "xeps"))
      [] p = "ytwiss_beta" -> QDiv(s.moment1_env[3][3], getattr_(s, "yeps"))
      [] p = "ztwiss_beta" -> QDiv(s.moment1_env[5][5], getattr_(s, "zeps"))
      [] p = "xtwiss_beta_all" -> VDiv(Along(s.moment1, 0, 0), getattr_(s, "xeps_all"))
      [] p = "ytwiss_beta_all" -> VDiv(Along(s.moment1, 2, 2), getattr_(s, "yeps_all"))
      [] p = "ztwiss_beta_all" -> VDiv(Along(s.moment1, 4, 4), getattr_(s, "zeps_all"))
      [] p = "xtwiss_alpha" ->
            QMul(QDiv(QNeg(s.moment1_env[1][2]), getattr_(s, "xeps")), E10(3))
      [] p = "ytwiss_alpha" ->
            QMul(QDiv(QNeg(s.moment1_env[3][4]), getattr_(s, "yeps")), E10(3))
      [] p = "ztwiss_alpha" -> QDiv(QNeg(s.moment1_env[5][6]), getattr_(s, "zeps"))
      [] p = "xtwiss_alpha_all" ->
            VMul(VDiv(VNeg(Along(s.moment1, 0, 1)), getattr_(s, "xeps_all")), E10(3))
      [] p = "ytwiss_alpha_all" ->
            VMul(VDiv(VNeg(Along(s.moment1, 2, 3)), getattr_(s, "yeps_all")), E10(3))
      [] p = "ztwiss_alpha_all" -> VDiv(VNeg(Along(s.moment1, 4, 5)), getattr_(s, "zeps_all"))
      [] p = "couple_xy"   -> get_couple(s, CoorS("x"), CoorS("y"), -1).v
      [] p = "couple_xpy"  -> get_couple(s, CoorS("xp"), CoorS("y"), -1).v
      [] p = "couple_xyp"  -> get_couple(s, CoorS("x"), CoorS("yp"), -1).v
      [] p = "couple_xpyp" -> get_couple(s, CoorS("xp"), CoorS("yp"), -1).v
      [] p = "couple_xy_all" ->
            [k \in ChargeStates(s) |-> get_couple(s, CoorS("x"), CoorS("y"), k - 1).v]
      [] p = "couple_xpy_all" ->
            [k \in ChargeStates(s) |-> get_couple(s, CoorS("xp"), CoorS("y"), k - 1).v]
      [] p = "couple_xyp_all" ->
            [k \in ChargeStates(s) |-> get_couple(s, CoorS("x"), CoorS("yp"), k - 1).v]
      [] p = "couple_xpyp_all" ->
            [k \in ChargeStates(s) |-> get_couple(s, CoorS("xp"), CoorS("yp"), k - 1).v]

\* ------------------------------------------------------------------------
\* BeamState: set_couple and set_twiss
\* ------------------------------------------------------------------------
\* mat[r, c, k] = v
Put(t, r, c, k, v) == [t EXCEPT ![r + 1][c + 1][k + 1] = v]

\* an assignment that writes mat[c1, c2, cs] alone
put_pair_one_side(mat, c1, c2, cs, v) == Put(mat, c1, c2, cs, v)

\* mat[c1, c2, cs] = mat[c2, c1, cs] = v
put_pair(mat, c1, c2, cs, v) == Put(Put(mat, c2, c1, cs, v), c1, c2, cs, v)

\* set_couple(coor1, coor2, value, cs) on the engine state s: the state after
\* the call
set_couple(s, coor1, coor2, value, cs) ==
    LET r == _couple_index(coor1, coor2)
    IN  IF ~r.ok THEN s
        ELSE LET mat == s.moment1
                 fac == QSqrt(QMul(mat[r.c1 + 1][r.c1 + 1][cs + 1],
                                   mat[r.c2 + 1][r.c2 + 1][cs + 1]))
             IN  [s EXCEPT !.moment1 = put_pair(mat, r.c1, r.c2, cs, QMul(value, fac))]

\* coor + 'emittance_all', coor + 'twiss_beta_all', coor + 'twiss_alpha_all',
\* and idx and jdx of the three branches of set_twiss
Axes ==
    [x |-> [eps |-> "xemittance_all", beta |-> "xtwiss_beta_all", alpha |-> "xtwiss_alpha_all",
            idx |-> <<0, 1>>, jdx |-> <<2, 3, 4, 5>>],
     y |-> [eps |-> "yemittance_all", beta |-> "ytwiss_beta_all", alpha |-> "ytwiss_alpha_all",
            idx |-> <<2, 3>>, jdx |-> <<0, 1, 4, 5>>],
     z |-> [eps |-> "zemittance_all", beta |-> "ztwiss_beta_all", alpha |-> "ztwiss_alpha_all",
            idx |-> <<4, 5>>, jdx |-> <<0, 1, 2, 3>>]]

\* a loop that reads the coupling terms when it re-applies them, after the
\* block has been overwritten, instead of using the captured ones
RECURSIVE reapply_uncaptured(_, _, _, _, _, _)
reapply_uncaptured(s, s0, idx, jdx, cs, k) ==
    IF k > Len(idx) * Len(jdx) THEN s
    ELSE LET j == jdx[((k - 1) \div Len(idx)) + 1]
             i == idx[((k - 1) % Len(idx)) + 1]
             v == get_couple(s, CoorI(i), CoorI(j), cs).v
         IN  reapply_uncaptured(set_couple(s, CoorI(i), CoorI(j), v, cs), s0, idx, jdx, cs, k + 1)

\* for j, cp in zip(jdx, cpt): for i, v in zip(idx, cp): set_couple(i, j, v)
\* with cp[i] = get_couple(i, j) of the state s0 before the block is written
RECURSIVE reapply(_, _, _, _, _, _)
reapply(s, s0, idx, jdx, cs, k) ==
    IF k > Len(idx) * Len(jdx) THEN s
    ELSE LET j == jdx[((k - 1) \div Len(idx)) + 1]
             i == idx[((k - 1) % Len(idx)) + 1]
             v == get_couple(s0, CoorI(i), CoorI(j), cs).v
         IN  reapply(set_couple(s, CoorI(i), CoorI(j), v, cs), s0, idx, jdx, cs, k + 1)

\* a block whose longitudinal branch carries the transverse unit factors
twiss_block_one_unit(coor, alpha, beta, eps) ==
    [aa |-> QMul(beta, eps),
     ab |-> QMul(QMul(QNeg(alpha), eps), E10(-3)),
     bb |-> QMul(QMul(QDiv(QAdd(Int2Q(1), QMul(alpha, alpha)), beta), eps), E10(-6))]

\* the three entries that set_twiss writes: mat[a, a], mat[a, a'] = mat[a', a]
\* and mat[a', a'], in mm and rad for x and y, without unit factors for z
twiss_block(coor, alpha, beta, eps) ==
    IF coor = "z"
    THEN [aa |-> QMul(beta, eps),
          ab |-> QMul(QNeg(alpha), eps),
          bb |-> QMul(QDiv(QAdd(Int2Q(1), QMul(alpha, alpha)), beta), eps)]
    ELSE [aa |-> QMul(beta, eps),
          ab |-> QMul(QMul(QNeg(alpha), eps), E10(-3)),
          bb |-> QMul(QMul(QDiv(QAdd(Int2Q(1), QMul(alpha, alpha)), beta), eps), E10(-6))]

\* lines 894-923 of set_twiss, for the resolved alpha, beta and eps: the block
\* is written into a copy of moment1, the copy is assigned, and the captured
\* coupling terms are re-applied
twiss_write(s, coor, alpha, beta, eps, cs) ==
    LET ax  == Axes[coor]
        a   == ax.idx[1]
        blk == twiss_block(coor, alpha, beta, eps)
        mat == Put(Put(Put(Put(s.moment1, a, a, cs, blk.aa),
                   a + 1, a, cs, blk.ab), a, a + 1, cs, blk.ab), a + 1, a + 1, cs, blk.bb)
    IN  reapply([s EXCEPT !.moment1 = mat], s, ax.idx, ax.jdx, cs, 1)

\* a set_twiss without the test of its input, which writes the block whenever
\* alpha, beta and emittance are given
set_twiss_unchecked(s, coor, alpha, beta, rmssize, emittance, nemittance, cs) ==
    [raised |-> FALSE, reported |-> FALSE,
     s |-> IF coor \in DOMAIN Axes /\ alpha.some /\ beta.some /\ emittance.some
           THEN twiss_write(s, coor, alpha.v, beta.v, emittance.v, cs) ELSE s]

\* set_twiss(coor, alpha, beta, rmssize, emittance, nemittance, cs) on the
\* engine state s: the state after the call, whether getattr raised
\* AttributeError (the call then changes nothing) and whether the error
\* "Invalid twiss input" was logged
set_twiss(s, coor, alpha, beta, rmssize, emittance, nemittance, cs) ==
    LET known   == coor \in DOMAIN Axes
        ax      == Axes[coor]
        noEps   == ~emittance.some /\ ~nemittance.some
        noBeta  == ~beta.some /\ ~rmssize.some
        invalid == beta.some /\ rmssize.some
        eps0    == IF noEps THEN Some(getattr_(s, ax.eps)[cs + 1]) ELSE emittance
        gam     == QAdd(Int2Q(1), QDiv(getattr_(s, "ref_IonEk"), getattr_(s, "ref_IonEs")))
        bg      == QSqrt(QSub(QMul(gam, gam), Int2Q(1)))
        eps     == IF ~eps0.some THEN QDiv(nemittance.v, bg) ELSE eps0.v
        bet     == IF noBeta THEN getattr_(s, ax.beta)[cs + 1]
                   ELSE IF ~beta.some THEN QDiv(QMul(rmssize.v, rmssize.v), eps)
                   ELSE beta.v
        alp     == IF ~alpha.some THEN getattr_(s, ax.alpha)[cs + 1] ELSE alpha.v
    IN  IF ~known /\ (noEps \/ noBeta \/ (~invalid /\ ~alpha.some))
        THEN [raised |-> TRUE, reported |-> FALSE, s |-> s]
        ELSE IF invalid
        THEN [raised |-> FALSE, reported |-> TRUE, s |-> s]
        ELSE IF ~known
        THEN [raised |-> FALSE, reported |-> FALSE, s |-> s]
        ELSE [raised |-> FALSE, reported |-> FALSE, s |-> twiss_write(s, coor, alp, bet, eps, cs)]

\* ------------------------------------------------------------------------
\* BeamState: initial states, inputs and actions
\* ------------------------------------------------------------------------
\* A correlation tensor slice with the rms sizes sig and the normalized
\* coupling terms cor (those not listed are 0); row and column 6 are 0
Covariance(sig, cor) ==
    [r \in 1 .. 7 |-> [c \in 1 .. 7 |->
        IF r = 7 \/ c = 7 THEN Zero
        ELSE IF r = c THEN QMul(sig[r], sig[r])
        ELSE LET p == IF r < c THEN <<r - 1, c - 1>> ELSE <<c - 1, r - 1>>
             IN  IF p \in DOMAIN cor THEN QMul(cor[p], QMul(sig[r], sig[c])) ELSE Zero]]

\* the tensor of the slices sl[1], sl[2], ...
Stack(sl) == [r \in 1 .. 7 |-> [c \in 1 .. 7 |-> [k \in DOMAIN sl |-> sl[k][r][c]]]]

SliceA ==
    Covariance(<<Int2Q(2), QMul(Frac(5, 8), E10(-3)), Int2Q(2), QMul(Int2Q(2), E10(-3)),
                 Int2Q(1), Frac(5, 3)>>,
               (<<0, 1>> :> Frac(-3, 5)) @@ (<<4, 5>> :> Frac(4, 5))
               @@ (<<0, 2>> :> Frac(3, 5)) @@ (<<1, 2>> :> Frac(-4, 5))
               @@ (<<1, 3>> :> Frac(3, 5)) @@ (<<0, 4>> :> Frac(4, 5))
               @@ (<<2, 4>> :> Frac(-3, 5)) @@ (<<3, 5>> :> Frac(4, 5)))
SliceB ==
    Covariance(<<Int2Q(1), E10(-3), Int2Q(4), QMul(Frac(5, 4), E10(-3)), Int2Q(2), Frac(1, 2)>>,
               (<<2, 3>> :> Frac(-3, 5))
               @@ (<<0, 3>> :> Frac(-3, 5)) @@ (<<1, 2>> :> Frac(4, 5))
               @@ (<<1, 5>> :> Frac(3, 5)) @@ (<<2, 5>> :> Frac(-4, 5)))
SliceE ==
    Covariance(<<Int2Q(3), QMul(Frac(5, 3), E10(-3)), Int2Q(1), QMul(Frac(5, 4), E10(-3)),
                 Int2Q(2), Frac(5, 6)>>,
               (<<0, 1>> :> Frac(4, 5)) @@ (<<2, 3>> :> Frac(-3, 5)) @@ (<<4, 5>> :> Frac(-4, 5))
               @@ (<<0, 2>> :> Frac(4, 5)) @@ (<<1, 2>> :> Frac(-3, 5))
               @@ (<<0, 3>> :> Frac(3, 5)) @@ (<<1, 3>> :> Frac(-4, 5)))

\* the centroid of charge state k: [x, x', y, y', phi, dEk, 1]
Centroid(k) == <<Int2Q(k), Frac(k, 2), Int2Q(-k), Frac(1, k + 1), Int2Q(k + 2), Zero, Int2Q(1)>>

\* the engine state of a beam of nc charge states after the source element
EngineState(nc) ==
    [pos |-> Zero,
     ref_beta |-> Frac(3, 5), ref_bg |-> Frac(3, 4), ref_gamma |-> Frac(5, 4),
     ref_IonEk |-> Int2Q(3), ref_IonEs |-> Int2Q(12), ref_IonQ |-> Int2Q(2),
     ref_IonW |-> Int2Q(15), ref_IonZ |-> Frac(1, 4), ref_phis |-> Zero,
     ref_SampleIonK |-> Int2Q(6),
     beta |-> [k \in 1 .. nc |-> Frac(3, 5)], bg |-> [k \in 1 .. nc |-> Frac(3, 4)],
     gamma |-> [k \in 1 .. nc |-> Frac(5, 4)], IonEk |-> [k \in 1 .. nc |-> Int2Q(3)],
     IonEs |-> [k \in 1 .. nc |-> Int2Q(12)], IonQ |-> [k \in 1 .. nc |-> Int2Q(k + 1)],
     IonW |-> [k \in 1 .. nc |-> Int2Q(15)], IonZ |-> [k \in 1 .. nc |-> Frac(1, k + 3)],
     phis |-> [k \in 1 .. nc |-> Zero], SampleIonK |-> [k \in 1 .. nc |-> Int2Q(6)],
     moment0_env |-> Centroid(3),
     moment0_rms |-> [r \in 1 .. 7 |-> QSqrt(SliceE[r][r])],
     moment0 |-> [r \in 1 .. 7 |-> [k \in 1 .. nc |-> Centroid(k)[r]]],
     moment1 |-> Stack([k \in 1 .. nc |-> IF k = 1 THEN SliceA ELSE SliceB]),
     moment1_env |-> IF nc = 1 THEN SliceA ELSE SliceE,
     last_caviphi0 |-> Zero]

\* the value a caller assigns to the attribute p of a state of nc charge
\* states: a number, an array over the charge states, a centroid or a tensor
NewValue(p, nc) ==
    CASE p \in {"pos", "ref_beta", "ref_bg", "ref_gamma", "ref_IonQ", "ref_IonW", "ref_IonZ",
                "ref_phis", "ref_SampleIonK"} -> Int2Q(7)
      [] p = "ref_IonEk" -> Int2Q(8)
      [] p = "ref_IonEs" -> Int2Q(5)
      [] p \in {"beta", "bg", "gamma", "IonEk", "IonEs", "IonQ", "IonW", "IonZ", "phis",
                "SampleIonK"} -> [k \in 1 .. nc |-> Int2Q(7 + k)]
      [] p \in {"moment0_env", "moment0_rms"} -> Centroid(5)
      [] p = "moment0" -> [r \in 1 .. 7 |-> [k \in 1 .. nc |-> Centroid(k + 5)[r]]]
      [] p = "moment1" -> Stack([k \in 1 .. nc |-> IF k = 1 THEN SliceB ELSE SliceE])
      [] p = "moment1_env" -> SliceB
      [] OTHER -> Zero

\* the objects that exist, and the engine state of an object
Objects    == {o \in DOMAIN objs : objs[o] # 0}
StateOf(o) == heap[objs[o]]

\* the engine's State.clone(): a new State object with the same contents
engine_clone(hp, h) == Append(hp, hp[h])

\* BeamState(s) for an engine state s that is not all zeros: the object keeps
\* the reference s
BeamState_init(h) == h

\* a clone that wraps the engine state of the source itself
clone_shared(hp, h) == [heap |-> hp, states |-> BeamState_init(h)]

\* clone(): BeamState(self._states.clone())
clone(hp, h) == [heap |-> engine_clone(hp, h), states |-> BeamState_init(Len(hp) + 1)]

\* every tensor entry of the state is a number of the model
Exact(s) ==
    \A r \in 1 .. 7, c \in 1 .. 7, k \in DOMAIN s.moment1[1][1] : IsFinite(s.moment1[r][c][k])

InitBeam ==
    /\ \E nc \in 1 .. MaxCharge : heap = <<EngineState(nc)>>
    /\ objs = [ms |-> 1, cl |-> 0]
    /\ steps = 0
    /\ last = NoCall
    /\ srcconf = NoSource
    /\ IdleElem
    /\ IdlePatch

\* cl = ms.clone()
Clone ==
    /\ objs.cl = 0
    /\ LET r == clone(heap, objs.ms)
       IN  /\ heap' = r.heap
           /\ objs' = [objs EXCEPT !.cl = r.states]
    /\ last' = [NoCall EXCEPT !.op = "clone", !.obj = "ms"]
    /\ UNCHANGED <<steps, srcconf, lookupVars, patchVars>>

\* o.state = p for another BeamState p: self._states = s.clone().state
SetState ==
    /\ steps < MaxSteps
    /\ \E o \in Objects : \E p \in Objects \ {o} :
          LET r == clone(heap, objs[p])
          IN  /\ heap' = r.heap
              /\ objs' = [objs EXCEPT ![o] = r.states]
              /\ last' = [NoCall EXCEPT !.op = "state", !.obj = o]
    /\ steps' = steps + 1
    /\ UNCHANGED <<srcconf, lookupVars, patchVars>>

\* the attribute names a caller assigns to
WriteNames ==
    Settable \cup {"cenvector", "cenvector_all", "beammatrix_all", "beammatrix"}
        \cup {"moment0_rms", "rmsvector", "xemittance", "xeps"}

\* setattr(o, nm, x): the setter of the property that the class binds nm to,
\* or AttributeError for a property without setter
SetAttr ==
    /\ steps < MaxSteps
    /\ \E o \in Objects, nm \in WriteNames :
          LET prop == ClassDict[nm]
              x    == NewValue(prop.fget, Len(StateOf(o).bg))
          IN  /\ heap' = IF prop.fset THEN [heap EXCEPT ![objs[o]][prop.fget] = x] ELSE heap
              /\ last' = [NoCall EXCEPT !.op = "setattr", !.obj = o, !.name = nm,
                                        !.raised = ~prop.fset]
    /\ steps' = steps + 1
    /\ UNCHANGED <<objs, srcconf, lookupVars, patchVars>>

\* the arguments of the set_twiss calls: [alpha, beta, rmssize, emittance,
\* nemittance]
TwissArgs ==
    { <<Some(Frac(3, 4)), Some(Int2Q(4)), Nothing, Some(Int2Q(4)), Nothing>>,
      <<Some(Frac(-4, 3)), Some(Int2Q(1)), Nothing, Some(Int2Q(9)), Nothing>>,
      <<Some(Zero), Some(Frac(1, 4)), Nothing, Some(Int2Q(1)), Nothing>>,
      <<Some(Frac(3, 4)), Some(Int2Q(1)), Nothing, Some(Int2Q(1)), Some(Int2Q(3))>>,
      <<Some(Frac(3, 4)), Some(Int2Q(4)), Nothing, Some(Zero), Nothing>>,
      <<Nothing, Nothing, Nothing, Nothing, Nothing>>,
      <<Nothing, Nothing, Some(Int2Q(3)), Nothing, Some(Int2Q(3))>>,
      <<Some(Frac(3, 4)), Some(Int2Q(4)), Some(Int2Q(3)), Some(Int2Q(4)), Nothing>>,
      <<Nothing, Some(Int2Q(4)), Some(Int2Q(3)), Nothing, Nothing>>,
      <<Some(Zero), Some(Int2Q(1)), Some(Int2Q(2)), Nothing, Some(Int2Q(3))>> }

\* o.set_twiss(coor, alpha, beta, rmssize, emittance, nemittance, cs)
SetTwiss ==
    /\ steps < MaxSteps
    /\ \E o \in Objects, coor \in {"x", "y", "z", "w"}, a \in TwissArgs :
       \E cs \in 0 .. (Len(StateOf(o).bg) - 1) :
       \E r \in {set_twiss(StateOf(o), coor, a[1], a[2], a[3], a[4], a[5], cs)} :
              /\ Exact(r.s)
              /\ heap' = [heap EXCEPT ![objs[o]] = r.s]
              /\ last' = [NoCall EXCEPT !.op = "set_twiss", !.obj = o, !.coor = coor,
                             !.cs = cs, !.alpha = a[1], !.beta = a[2], !.rmssize = a[3],
                             !.emittance = a[4], !.nemittance = a[5], !.raised = r.raised,
                             !.reported = r.reported]
    /\ steps' = steps + 1
    /\ UNCHANGED <<objs, srcconf, lookupVars, patchVars>>

\* the coordinates of the set_couple calls
CoupleArgs ==
    { <<CoorS("x"), CoorS("y")>>, <<CoorS("xp"), CoorS("zp")>>, <<CoorS("y"), CoorS("y")>>,
      <<CoorS("x"), CoorS("q")>>, <<CoorI(3), CoorI(4)>> }

\* o.set_couple(coor1, coor2, value, cs)
SetCouple ==
    /\ steps < MaxSteps
    /\ \E o \in Objects, c \in CoupleArgs, value \in {Zero, Frac(3, 5)} :
       \E cs \in 0 .. (Len(StateOf(o).bg) - 1) :
       \E s \in {set_couple(StateOf(o), c[1], c[2], value, cs)} :
              /\ Exact(s)
              /\ heap' = [heap EXCEPT ![objs[o]] = s]
              /\ last' = [NoCall EXCEPT !.op = "set_couple", !.obj = o, !.coor1 = c[1],
                             !.coor2 = c[2], !.value = value, !.cs = cs]
    /\ steps' = steps + 1
    /\ UNCHANGED <<objs, srcconf, lookupVars, patchVars>>

\* o.get_couple(coor1, coor2, cs): the call returns the term, or None
GetCouple ==
    /\ steps < MaxSteps
    /\ \E o \in Objects, c \in CoupleArgs :
       \E cs \in 0 .. (Len(StateOf(o).bg) - 1) :
          last' = [NoCall EXCEPT !.op = "get_couple", !.obj = o, !.coor1 = c[1],
                      !.coor2 = c[2], !.cs = cs,
                      !.result = get_couple(StateOf(o), c[1], c[2], cs)]
    /\ steps' = steps + 1
    /\ UNCHANGED <<heap, objs, srcconf, lookupVars, patchVars>>

NextBeam == Clone \/ SetState \/ SetAttr \/ SetTwiss \/ SetCouple \/ GetCouple

\* ------------------------------------------------------------------------
\* BeamState: construction
\* ------------------------------------------------------------------------
\* m.allocState({}): the state of one charge state with every attribute 0
ZeroState ==
    [p \in EngineProps |->
        CASE p \in {"beta", "bg", "gamma", "IonEk", "IonEs", "IonQ", "IonW", "IonZ", "phis",
                    "SampleIonK"} -> <<Zero>>
          [] p \in {"moment0_env", "moment0_rms"} -> [r \in 1 .. 7 |-> Zero]
          [] p = "moment0" -> [r \in 1 .. 7 |-> <<Zero>>]
          [] p = "moment1" -> [r \in 1 .. 7 |-> [c \in 1 .. 7 |-> <<Zero>>]]
          [] p = "moment1_env" -> [r \in 1 .. 7 |-> [c \in 1 .. 7 |-> Zero]]
          [] OTHER -> Zero]

\* The machines of the caller: machine 1 is the object passed as machine=,
\* machine 2 is what Machine(open(latfile)) makes of the file "good"; the
\* file "bad" cannot be opened.  m.propagate(s, 0, 1) runs the source
\* element, which sets the state to the beam of the machine's source.
SourceState(m) == EngineState(m)
OpenLatfile(f) == IF f = "good" THEN 2 ELSE 0

\* machine_setter(_latfile, _machine, _handle_name): the machine, 0 for None
machine_setter(latfile, mach) ==
    IF latfile # ""
    THEN IF OpenLatfile(latfile) # 0 THEN OpenLatfile(latfile) ELSE mach
    ELSE mach

\* a test that takes every state for all zeros
is_zeros_states_always(s) == TRUE

\* is_zeros_states(s): np.alltrue(s.moment0 == np.zeros([7, 1]))
is_zeros_states(s) ==
    \A r \in 1 .. 7 : \A k \in DOMAIN s.moment0[r] : s.moment0[r][k] = Zero

\* a constructor that looks at bmstate before it looks at s
BeamState_new_bmstate_first(hp, ob, s, bmstate, mach, latfile) ==
    LET m  == machine_setter(latfile, mach)
        c  == IF bmstate # "" THEN clone(hp, ob[bmstate])
              ELSE IF s # 0 THEN [heap |-> hp, states |-> s]
              ELSE IF m # 0 THEN [heap |-> Append(hp, ZeroState), states |-> Len(hp) + 1]
              ELSE [heap |-> hp, states |-> 0]
        fix == c.states # 0 /\ is_zeros_states(c.heap[c.states]) /\ m # 0
    IN  [heap |-> IF fix THEN [c.heap EXCEPT ![c.states] = SourceState(m)] ELSE c.heap,
         states |-> c.states, npropagate |-> IF fix THEN 1 ELSE 0]

\* BeamState(s, bmstate=, machine=, latfile=) with the engine states hp and
\* the BeamState objects ob: the engine states after the call, the handle
\* self._states (0 for None) and the number of propagate calls made
BeamState_new(hp, ob, s, bmstate, mach, latfile) ==
    LET m  == machine_setter(latfile, mach)
        c  == IF s # 0 THEN [heap |-> hp, states |-> BeamState_init(s)]
              ELSE IF bmstate # "" THEN clone(hp, ob[bmstate])
              ELSE IF m # 0 THEN [heap |-> Append(hp, ZeroState), states |-> Len(hp) + 1]
              ELSE [heap |-> hp, states |-> 0]
        fix == c.states # 0 /\ is_zeros_states(c.heap[c.states]) /\ m # 0
    IN  [heap |-> IF fix THEN [c.heap EXCEPT ![c.states] = SourceState(m)] ELSE c.heap,
         states |-> c.states, npropagate |-> IF fix THEN 1 ELSE 0]

\* the caller holds the engine state 1 (all zeros, or a beam) and the
\* BeamState cl on the engine state 2 (a beam, or all zeros); ms is not
\* constructed yet
InitNew ==
    /\ heap \in {<<ZeroState, EngineState(2)>>, <<EngineState(1), EngineState(2)>>,
                 <<EngineState(1), ZeroState>>, <<ZeroState, ZeroState>>}
    /\ objs = [ms |-> 0, cl |-> 2]
    /\ steps = 0
    /\ last = NoCall
    /\ srcconf = NoSource
    /\ IdleElem
    /\ IdlePatch

\* ms = BeamState(s, bmstate=, machine=, latfile=)
Construct ==
    /\ objs.ms = 0
    /\ last.op = "none"
    /\ \E s \in {0, 1}, bmstate \in {"", "cl"}, mach \in {0, 1}, latfile \in {"", "good", "bad"} :
       \E r \in {BeamState_new(heap, objs, s, bmstate, mach, latfile)} :
          /\ heap' = r.heap
          /\ objs' = [objs EXCEPT !.ms = r.states]
          /\ last' = [NoCall EXCEPT !.op = "init", !.obj = "ms", !.s = s, !.bmstate = bmstate,
                         !.machine = mach, !.latfile = latfile, !.npropagate = r.npropagate]
    /\ UNCHANGED <<steps, srcconf, lookupVars, patchVars>>

\* the caller assigns to an attribute of the engine state 1 it holds
CallerSet ==
    /\ steps < MaxSteps
    /\ \E p \in Settable :
          /\ heap' = [heap EXCEPT ![1][p] = NewValue(p, Len(heap[1].bg))]
          /\ last' = [NoCall EXCEPT !.op = "caller", !.name = p]
    /\ steps' = steps + 1
    /\ UNCHANGED <<objs, srcconf, lookupVars, patchVars>>

NextNew == Construct \/ SetAttr \/ CallerSet

\* ------------------------------------------------------------------------
\* Source encoder
\* ------------------------------------------------------------------------
\* A value of a source property map: a string, a float or a numeric array
SrcStr(t) == [kind |-> "str", s |-> t, q |-> Zero, a |-> <<>>]
SrcNum(x) == [kind |-> "num", s |-> <<>>, q |-> x, a |-> <<>>]
SrcArr(v) == [kind |-> "arr", s |-> <<>>, q |-> Zero, a |-> v]

\* the value of the attribute attr of the state, in a property map
SrcValue(attr, x) ==
    IF attr \in {"pos", "ref_beta", "ref_bg", "ref_gamma", "ref_IonEk", "ref_IonEs", "ref_IonQ",
                 "ref_IonW", "ref_IonZ", "ref_phis", "ref_SampleIonK", "last_caviphi0"}
    THEN SrcNum(x) ELSE SrcArr(x)

\* d[k] = v of a dict
DictSet(d, k, v) == [j \in DOMAIN d \cup {k} |-> IF j = k THEN v ELSE d[j]]

\* a table that takes the kinetic energy for the rest energy and back
KEY_MAPPING_crossed ==
    (K_IonChargeStates :> "IonZ") @@ (K_IonEk :> "ref_IonEs") @@ (K_IonEs :> "ref_IonEk")
    @@ (K_NCharge :> "IonQ")

KEY_MAPPING ==
    (K_IonChargeStates :> "IonZ") @@ (K_IonEk :> "ref_IonEk") @@ (K_IonEs :> "ref_IonEs")
    @@ (K_NCharge :> "IonQ")

\* the properties of the source that generate_source makes without sconf
DefaultSource ==
    (K_name :> SrcStr(<<"S">>)) @@ (K_type :> SrcStr(T_source))
    @@ (K_matrix_variable :> SrcStr(<<"S">>)) @@ (K_vector_variable :> SrcStr(<<"P">>))

\* '{0}'.format(i) of an integer i >= 0
RECURSIVE format_int(_)
format_int(i) ==
    IF i < 10 THEN <<DigitChars[i + 1]>>
    ELSE format_int(i \div 10) \o <<DigitChars[(i % 10) + 1]>>

\* '{0}'.format(p) of sconf_prop.get(key, None): the string, or 'None'
format_var(d, key) == IF key \in DOMAIN d THEN d[key].s ELSE <<"N", "o", "n", "e">>

\* state.moment0[:, i] and state.moment1[:, :, i].flatten()
column(m0, i)  == [r \in 1 .. 7 |-> m0[r][i + 1]]
flatten(m1, i) == [j \in 1 .. 49 |-> m1[((j - 1) \div 7) + 1][((j - 1) % 7) + 1][i + 1]]

\* a loop that extends the array a key already holds instead of replacing it
RECURSIVE update_properties_extend(_, _, _, _)
update_properties_extend(d, st, km, ks) ==
    IF ks = {} THEN d
    ELSE LET k == CHOOSE j \in ks : TRUE
             v == SrcValue(km[k], getattr_(st, km[k]))
         IN  update_properties_extend(
                DictSet(d, k, IF k \in DOMAIN d /\ d[k].kind = "arr" /\ v.kind = "arr"
                              THEN SrcArr(d[k].a \o v.a) ELSE v),
                st, km, ks \ {k})

\* for k, v in KEY_MAPPING.items(): sconf_prop[k] = getattr(state, v), over
\* the keys ks that are left
RECURSIVE update_properties(_, _, _, _)
update_properties(d, st, km, ks) ==
    IF ks = {} THEN d
    ELSE LET k == CHOOSE j \in ks : TRUE
         IN  update_properties(DictSet(d, k, SrcValue(km[k], getattr_(st, km[k]))),
                               st, km, ks \ {k})

\* for i in range(len(state.IonZ)): the loop from i on
RECURSIVE update_variables(_, _, _, _, _)
update_variables(d, st, p, s, i) ==
    IF i >= Len(getattr_(st, "IonZ")) THEN d
    ELSE update_variables(
            DictSet(DictSet(d, p \o format_int(i), SrcArr(column(getattr_(st, "moment0"), i))),
                    s \o format_int(i), SrcArr(flatten(getattr_(st, "moment1"), i))),
            st, p, s, i + 1)

\* generate_source(state, sconf) for the engine state st of a BeamState: the
\* returned dict; its properties are sconf['properties'] itself, updated
generate_source(st, sconf) ==
    LET sconf_indx == IF sconf.some THEN sconf.index ELSE 0
        sconf_prop == IF sconf.some THEN sconf.properties ELSE DefaultSource
        d1 == update_properties(sconf_prop, st, KEY_MAPPING, DOMAIN KEY_MAPPING)
        p  == format_var(d1, K_vector_variable)
        s  == format_var(d1, K_matrix_variable)
    IN  [some |-> TRUE, index |-> sconf_indx, properties |-> update_variables(d1, st, p, s, 0)]

\* ------------------------------------------------------------------------
\* Source encoder: inputs and actions
\* ------------------------------------------------------------------------
\* the source element of a lattice, as get_element returns it: with the beam
\* parameters and the slices of two charge states
LatticeSource ==
    [some |-> TRUE, index |-> 0,
     properties |->
        DefaultSource
        @@ (K_IonEk :> SrcNum(Int2Q(1))) @@ (K_IonEs :> SrcNum(Int2Q(2)))
        @@ (K_NCharge :> SrcArr(<<Int2Q(3), Int2Q(4)>>))
        @@ (K_IonChargeStates :> SrcArr(<<Frac(1, 3), Frac(1, 4)>>))
        @@ (K_P0 :> SrcArr(Centroid(8))) @@ (K_P0_1 :> SrcArr(Centroid(9)))
        @@ (K_S0 :> SrcArr([j \in 1 .. 49 |-> Int2Q(j)]))
        @@ (K_S0_1 :> SrcArr([j \in 1 .. 49 |-> Int2Q(50 - j)]))]

\* a source element that names its variables otherwise and holds one more key
OtherSource ==
    [some |-> TRUE, index |-> 2,
     properties |->
        (K_name :> SrcStr(NameS)) @@ (K_type :> SrcStr(T_source))
        @@ (K_vector_variable :> SrcStr(<<"B", "C">>)) @@ (K_matrix_variable :> SrcStr(<<"M">>))
        @@ (K_L :> SrcNum(Int2Q(1))) @@ (K_P0 :> SrcArr(Centroid(8)))]

SourceConfs == {NoSource, LatticeSource, OtherSource}

InitSource ==
    /\ \E nc \in 1 .. MaxCharge : heap = <<EngineState(nc)>>
    /\ objs = [ms |-> 1, cl |-> 0]
    /\ steps = 0
    /\ last = NoCall
    /\ srcconf \in SourceConfs
    /\ IdleElem
    /\ IdlePatch

\* srcconf = generate_source(o, srcconf), or srcconf = generate_source(o)
GenerateSource ==
    /\ \E o \in Objects, given \in BOOLEAN :
       \E arg \in {IF given THEN srcconf ELSE NoSource} :
          /\ srcconf' = generate_source(StateOf(o), arg)
          /\ last' = [NoCall EXCEPT !.op = "generate_source", !.obj = o, !.before = arg,
                         !.again = (last.op = "generate_source" /\ last.obj = o /\ given)]
    /\ UNCHANGED <<heap, objs, steps, lookupVars, patchVars>>

NextSource == GenerateSource \/ SetAttr

\* ------------------------------------------------------------------------
\* BeamState: properties
\* ------------------------------------------------------------------------
\* the last call was set_twiss(coor, alpha, beta, emittance=, cs=) on a valid
\* axis, with these three parameters given and no others, beta > 0 and
\* emittance > 0
TwissGiven ==
    /\ last.op = "set_twiss"
    /\ last.coor \in {"x", "y", "z"}
    /\ last.alpha.some /\ last.beta.some /\ last.emittance.some
    /\ ~last.rmssize.some /\ ~last.nemittance.some
    /\ IsFinite(last.alpha.v)
    /\ IsFinite(last.beta.v) /\ last.beta.v.num > 0
    /\ IsFinite(last.emittance.v) /\ last.emittance.v.num > 0

\* C5: after set_twiss(axis, alpha, beta, emittance, cs=i) the readers
\* {axis}twiss_alpha_all[i], {axis}twiss_beta_all[i] and {axis}emittance_all[i]
\* return alpha, beta and emittance, for the axes x, y and z
C5_SetTwissInvertsReaders ==
    TwissGiven =>
        LET s == StateOf(last.obj)
            k == last.cs + 1
        IN  /\ last.coor = "x" =>
                 /\ getattr_(s, "xtwiss_alpha_all")[k] = last.alpha.v
                 /\ getattr_(s, "xtwiss_beta_all")[k] = last.beta.v
                 /\ getattr_(s, "xemittance_all")[k] = last.emittance.v
            /\ last.coor = "y" =>
                 /\ getattr_(s, "ytwiss_alpha_all")[k] = last.alpha.v
                 /\ getattr_(s, "ytwiss_beta_all")[k] = last.beta.v
                 /\ getattr_(s, "yemittance_all")[k] = last.emittance.v
            /\ last.coor = "z" =>
                 /\ getattr_(s, "ztwiss_alpha_all")[k] = last.alpha.v
                 /\ getattr_(s, "ztwiss_beta_all")[k] = last.beta.v
                 /\ getattr_(s, "zemittance_all")[k] = last.emittance.v

\* a longitudinal set_twiss with a nonzero alpha has been made on the second
\* charge state
C5_Witness ==
    /\ TwissGiven
    /\ last.coor = "z"
    /\ last.cs = 1
    /\ last.alpha.v # Zero

\* the two coordinates of an axis, and the coordinates of the other two axes
AxisPair(coor) ==
    CASE coor = "x" -> {"x", "xp"} [] coor = "y" -> {"y", "yp"} [] coor = "z" -> {"z", "zp"}
OtherCoors(coor) == {"x", "xp", "y", "yp", "z", "zp"} \ AxisPair(coor)

\* the indices in the tensor of the two coordinates of an axis
AxisIdx(coor) == CASE coor = "x" -> {1, 2} [] coor = "y" -> {3, 4} [] coor = "z" -> {5, 6}

\* the normalized coupling terms between the axis of the set_twiss call of
\* this step and the other two axes are the same before and after the step
CouplingsKept ==
    \A a \in AxisPair(last'.coor), j \in OtherCoors(last'.coor) :
        get_couple(heap'[objs'[last'.obj]], CoorS(a), CoorS(j), last'.cs)
          = get_couple(heap[objs[last'.obj]], CoorS(a), CoorS(j), last'.cs)

\* C6 (as stated): set_twiss on one axis leaves the normalized coupling
\* terms between the two coordinates of that axis and every coordinate of the
\* other two axes as get_couple returned them before the call, whatever the
\* call
C6_SetTwissKeepsCouplings ==
    [][(last'.op = "set_twiss" /\ last'.coor \in {"x", "y", "z"}) => CouplingsKept]_vars

\* C6 (amended): a set_twiss call that leaves positive variances on the two
\* coordinates of its axis leaves the normalized coupling terms between them
\* and every coordinate of the other two axes as get_couple returned them
\* before the call
C6_SetTwissKeepsCouplingsOfPositiveBlock ==
    [][(/\ last'.op = "set_twiss"
        /\ last'.coor \in {"x", "y", "z"}
        /\ \A k \in AxisIdx(last'.coor) :
              heap'[objs'[last'.obj]].moment1[k][k][last'.cs + 1].num > 0)
          => CouplingsKept]_vars

\* a set_twiss on x has changed both diagonal entries of the x block of a
\* slice whose x-y and x'-y coupling terms are not 0
C6_Witness ==
    /\ last.op = "set_twiss"
    /\ last.coor = "x"
    /\ last.alpha.some /\ last.beta.some /\ last.emittance.some
    /\ last.emittance.v # Zero
    /\ get_couple(StateOf(last.obj), CoorS("x"), CoorS("y"), last.cs).v # Zero
    /\ get_couple(StateOf(last.obj), CoorS("xp"), CoorS("y"), last.cs).v # Zero
    /\ StateOf(last.obj).moment1[1][1][last.cs + 1] # EngineState(2).moment1[1][1][last.cs + 1]

\* the names bound to the same property as the name nm of the alias table
Partners(nm) ==
    LET canonical == IF nm \in DOMAIN _aliases THEN _aliases[nm] ELSE nm
    IN  {canonical} \cup {a \in DOMAIN _aliases : _aliases[a] = canonical}

C10_CloneIndependent ==
    [][(objs.cl # 0 /\ last'.op \in {"setattr", "state", "set_twiss", "set_couple"}) =>
          \A p \in {"ms", "cl"} \ {last'.obj} : heap'[objs'[p]] = heap[objs[p]]]_vars

\* the clone exists and a setter has changed one of the two objects since
C10_Witness ==
    /\ objs.cl # 0
    /\ last.op \in {"setattr", "set_twiss", "set_couple"}
    /\ ~last.raised
    /\ StateOf("ms") # StateOf("cl")

\* ------------------------------------------------------------------------
\* Source encoder: properties
\* ------------------------------------------------------------------------
\* C8: encoding the same state a second time, into the property map that the
\* first encoding produced, yields the map with the same keys and values
C8_GenerateSourceIdempotent ==
    (last.op = "generate_source" /\ last.again) => srcconf = last.before

\* a state of two charge states has been encoded twice into a map that held
\* the slices of other names before
C8_Witness ==
    /\ last.op = "generate_source"
    /\ last.again
    /\ Len(StateOf(last.obj).IonZ) = 2
    /\ K_L \in DOMAIN srcconf.properties

\* C9: generate_source sets IonChargeStates, IonEk, IonEs and NCharge from
\* IonZ, ref_IonEk, ref_IonEs and IonQ, sets {vector_variable}{i} to column i
\* of moment0 and {matrix_variable}{i} to the 49 entries of slice i of moment1
\* row by row, for every charge state i, and keeps every other key and the
\* index (for a source that names its vector and its matrix differently)
C9_SourceKeyMapping ==
    last.op = "generate_source" =>
        LET st   == StateOf(last.obj)
            old  == IF last.before.some THEN last.before.properties ELSE DefaultSource
            new  == srcconf.properties
            p    == old[K_vector_variable].s
            m    == old[K_matrix_variable].s
            ids  == 0 .. (Len(st.IonZ) - 1)
            made == {K_IonChargeStates, K_IonEk, K_IonEs, K_NCharge}
                        \cup {p \o <<DigitChars[i + 1]>> : i \in ids}
                        \cup {m \o <<DigitChars[i + 1]>> : i \in ids}
        IN  /\ DOMAIN new = DOMAIN old \cup made
            /\ new[K_IonChargeStates] = SrcArr(st.IonZ)
            /\ new[K_IonEk] = SrcNum(st.ref_IonEk)
            /\ new[K_IonEs] = SrcNum(st.ref_IonEs)
            /\ new[K_NCharge] = SrcArr(st.IonQ)
            /\ \A i \in ids :
                  /\ new[p \o <<DigitChars[i + 1]>>].a = [r \in 1 .. 7 |-> st.moment0[r][i + 1]]
                  /\ Len(new[m \o <<DigitChars[i + 1]>>].a) = 49
                  /\ \A r \in 0 .. 6, c \in 0 .. 6 :
                        new[m \o <<DigitChars[i + 1]>>].a[7 * r + c + 1]
                          = st.moment1[r + 1][c + 1][i + 1]
            /\ \A k \in DOMAIN old \ made : new[k] = old[k]
            /\ srcconf.index = (IF last.before.some THEN last.before.index ELSE 0)

\* the source of a lattice has been updated from a state whose reference
\* energies were assigned
C9_Witness ==
    /\ last.op = "generate_source"
    /\ last.before.some
    /\ K_S0_1 \in DOMAIN srcconf.properties
    /\ StateOf(last.obj).ref_IonEk # StateOf(last.obj).ref_IonEs
    /\ steps > 0

\* C15 (as stated): get_couple and set_couple raise when they are called
\* with twice the same coordinate
C15_EqualCoordinatesRaise ==
    (last.op \in {"get_couple", "set_couple"} /\ last.coor1 = last.coor2) => last.raised

\* C16: set_twiss called with both beta and rmssize, on x, y or z, logs the
\* input error, raises nothing and leaves every engine state, the tensor
\* included, as it was, whichever of alpha, emittance and nemittance are given
C16_BetaAndRmssizeRejected ==
    [][(/\ last'.op = "set_twiss"
        /\ last'.coor \in {"x", "y", "z"}
        /\ last'.beta.some /\ last'.rmssize.some)
          => (last'.reported /\ ~last'.raised /\ heap' = heap)]_vars

\* set_twiss has been called with beta, rmssize, alpha and emittance, and
\* with beta and rmssize alone
C16_Witness ==
    /\ last.op = "set_twiss"
    /\ last.coor = "y"
    /\ last.beta.some /\ last.rmssize.some
    /\ last.alpha.some /\ last.emittance.some
    /\ last.reported

\* ------------------------------------------------------------------------
\* BeamState construction: properties
\* ------------------------------------------------------------------------
\* C11 (as stated): a BeamState made from the caller's state object s holds
\* a clone of s: the constructor leaves s as it was, every later setter call
\* on the BeamState leaves s as it was, and an assignment the caller makes to
\* s later leaves the state of the BeamState as it was
C11_ConstructedFromClone ==
    [][/\ (last'.op = "init" /\ last'.s # 0) => heap'[last'.s] = heap[last'.s]
       /\ (last'.op = "setattr" /\ last'.obj = "ms") => heap'[1] = heap[1]
       /\ (last'.op = "caller" /\ objs.ms # 0) => heap'[objs.ms] = heap[objs.ms]]_vars

\* the machines a constructor call can resolve: the machine object and the
\* machine of a lattice file that can be read
Available(call) ==
    (IF call.machine # 0 THEN {call.machine} ELSE {})
        \cup (IF call.latfile = "good" THEN {2} ELSE {})

\* the state a constructor call starts from, by the documented priority: s,
\* else the state of bmstate, else a fresh state of a machine, else none
Chosen(call, hp, ob) ==
    IF call.s # 0 THEN Some(hp[call.s])
    ELSE IF call.bmstate # "" THEN Some(hp[ob[call.bmstate]])
    ELSE IF Available(call) # {} THEN Some(ZeroState)
    ELSE NoneOf(ZeroState)

\* C12: the constructor takes its state from s when s is given, else from
\* bmstate when bmstate is given, else from a fresh state of the machine or
\* lattice file, and holds no state when nothing is given; the state it
\* holds is the one taken, or the one taken advanced by a machine
C12_ConstructionPriority ==
    [][last'.op = "init" =>
          LET c == Chosen(last', heap, objs)
          IN  IF ~c.some THEN objs'.ms = 0
              ELSE /\ objs'.ms # 0
                   /\ \/ heap'[objs'.ms] = c.v
                      \/ /\ c.v = ZeroState
                         /\ \E m \in Available(last') : heap'[objs'.ms] = SourceState(m)
                   /\ Len(heap') = Len(heap) + (IF last'.s # 0 THEN 0 ELSE 1)]_vars

\* a constructor was given a beam as s and another beam as bmstate, with a
\* machine, and holds the beam of s
C12_Witness ==
    /\ last.op = "init"
    /\ last.s # 0 /\ last.bmstate # "" /\ last.machine # 0
    /\ heap[objs.ms] = EngineState(1)
    /\ heap[objs.cl] = EngineState(2)

\* C13 (as stated): a constructor that is given both machine and latfile and
\* advances its state does so with the machine object
C13_MachineBeforeLatfile ==
    (last.op = "init" /\ last.machine # 0 /\ last.latfile # "" /\ last.npropagate > 0)
        => heap[objs.ms] = SourceState(last.machine)

\* C14: after construction, a state taken with an all-zero centroid has been
\* advanced once through the source element when a machine or a readable
\* lattice file was given, and is the all-zero state when none was; a state
\* taken with a centroid that is not all zero is as it was taken
C14_ZeroStateAdvancedOnce ==
    [][(last'.op = "init" /\ objs'.ms # 0) =>
          LET c   == Chosen(last', heap, objs).v
              now == heap'[objs'.ms]
          IN  IF \A r \in 1 .. 7 : \A k \in DOMAIN c.moment0[r] : c.moment0[r][k] = Zero
              THEN IF Available(last') # {}
                   THEN /\ last'.npropagate = 1
                        /\ \E m \in Available(last') : now = SourceState(m)
                   ELSE /\ last'.npropagate = 0
                        /\ now = c
              ELSE /\ last'.npropagate = 0
                   /\ now = c]_vars

\* the all-zero state of the caller has been advanced by the constructor
C14_Witness ==
    /\ last.op = "init"
    /\ last.s # 0 /\ last.bmstate = "" /\ last.machine = 1 /\ last.latfile = ""
    /\ last.npropagate = 1
    /\ heap[objs.ms] = SourceState(1)

\* ------------------------------------------------------------------------
\* Lattice serializer, fresh mode (original is not a file name)
\* ------------------------------------------------------------------------
\* a start or end argument: None, an element index, or an element name
ArgNone    == [kind |-> "none", idx |-> 0, name |-> <<>>]
ArgIdx(k)  == [kind |-> "idx", idx |-> k, name |-> <<>>]
ArgName(t) == [kind |-> "name", idx |-> 0, name |-> t]

\* a machine whose configuration names its beam line, with one element name
\* declared twice with different lengths
NameLS1 == <<"L", "S", "1">>
Lattice2 ==
    [globals |-> Globals0,
     name |-> NameLS1,
     elements |->
       << [name |-> NameS,  type |-> T_source, props |-> SourceProps],
          [name |-> NameD1, type |-> T_drift,  props |-> (K_L :> Num(1))],
          [name |-> NameB1, type |-> T_bpm,    props |-> NoProps],
          [name |-> NameD1, type |-> T_drift,  props |-> (K_L :> Num(2))],
          [name |-> NameB1, type |-> T_bpm,    props |-> NoProps] >>]

\* mconf.get('name', 'default')
blname(m) ==
    IF "name" \in DOMAIN m THEN m.name ELSE <<"d", "e", "f", "a", "u", "l", "t">>

\* line.strip(chars): the characters of chars removed from both ends
strip(l, chars) ==
    LET keep == {i \in 1 .. Len(l) : l[i] \notin chars}
    IN  IF keep = {} THEN <<>>
        ELSE SubSeq(l, CHOOSE i \in keep : \A j \in keep : i <= j,
                       CHOOSE i \in keep : \A j \in keep : j <= i)

\* the assignments of the lattice-global keys, lines 110-117 (the keys in
\* sorted order)
global_lines(m, mc_src) ==
    LET ks == sorted(DOMAIN m.globals)
    IN  [j \in 1 .. Len(ks) |-> ks[j] \o <<" ", "=", " ">> \o StrValue(mc_src[ks[j]]) \o <<";">>]

\* start as an index, lines 122-127; None when the name is not in the machine
resolve_start(m, start) ==
    IF start.kind = "none" THEN Some(1)
    ELSE IF start.kind = "name"
    THEN IF find_name(m, start.name) = {} THEN NoneOf(0)
         ELSE Some(First(find_name(m, start.name)))
    ELSE Some(start.idx)

\* end as the index after the last one, lines 132-137
resolve_end(m, end) ==
    IF end.kind = "none" THEN Some(Len(m.elements))
    ELSE IF end.kind = "name"
    THEN IF find_name(m, end.name) = {} THEN NoneOf(0)
         ELSE Some(First(find_name(m, end.name)) + 1)
    ELSE Some(end.idx + 1)

\* section = [0] + list(range(start, end)), line 139
section(start, end) == <<0>> \o [k \in 1 .. (end - start) |-> start + k - 1]

\* the declaration of the element at index i, lines 149-169
element_line(m, mc_src, i) ==
    LET elem_i == conf(m, i)
        ename  == elem_i[K_name].s
        etype  == elem_i[K_type].s
        elem_k == (DOMAIN elem_i \ DOMAIN mc_src)
                  \cup (IF etype = T_source THEN {K_vector_variable, K_matrix_variable} ELSE {})
                  \cup (IF etype = T_stripper THEN {K_IonChargeStates, K_NCharge} ELSE {})
        ks     == sorted((DOMAIN elem_i \cap elem_k) \ {K_name, K_type})
        p      == [j \in 1 .. Len(ks) |-> ks[j] \o <<" ", "=", " ">> \o StrValue(elem_i[ks[j]])]
        line   == ename \o <<":", " ">> \o etype \o <<",", " ">> \o Join(<<",", " ">>, p)
    IN  strip(line, {",", " "}) \o <<";">>

\* the loop of lines 143-170 emitting a declaration at every index
RECURSIVE declarations_every_index(_, _, _, _)
declarations_every_index(m, mc_src, sec, elem_name_list) ==
    IF sec = <<>> THEN <<>>
    ELSE <<element_line(m, mc_src, Head(sec))>>
             \o declarations_every_index(m, mc_src, Tail(sec), elem_name_list)

\* the loop of lines 143-170 over the indices sec still to visit, with the
\* names emitted so far
RECURSIVE declarations(_, _, _, _)
declarations(m, mc_src, sec, elem_name_list) ==
    IF sec = <<>> THEN <<>>
    ELSE LET ename == conf(m, Head(sec))[K_name].s
         IN  IF ename \in elem_name_list
             THEN declarations(m, mc_src, Tail(sec), elem_name_list)
             ELSE <<element_line(m, mc_src, Head(sec))>>
                      \o declarations(m, mc_src, Tail(sec), elem_name_list \cup {ename})

\* dline, line 172
dline(m, sec) ==
    <<"(">> \o Join(<<",", " ">>, [j \in 1 .. Len(sec) |-> conf(m, sec[j])[K_name].s]) \o <<")">>

\* '{0}: LINE = {1};' and 'USE: {0};', lines 175-176
line_of(name, dl) == name \o <<":", " ", "L", "I", "N", "E", " ", "=", " ">> \o dl \o <<";">>
use_of(name)      == <<"U", "S", "E", ":", " ">> \o name \o <<";">>

\* the lines of fresh mode, lines 107-180; None when a name is not found or
\* an index of the section is not one of the machine
fresh_lines(m, start, end) ==
    LET mc_src == mc_src_of(m)
        s == resolve_start(m, start)
        e == resolve_end(m, end)
    IN  IF ~s.some \/ ~e.some THEN NoneSeq
        ELSE LET sec == section(s.v, e.v)
             IN  IF \E j \in 1 .. Len(sec) : sec[j] \notin Indices(m) THEN NoneSeq
                 ELSE Some(global_lines(m, mc_src)
                           \o declarations(m, mc_src, sec, {})
                           \o << line_of(blname(m), dline(m, sec)), use_of(blname(m)) >>)

\* ------------------------------------------------------------------------
\* Lattice serializer: writing the lines out, lines 282-300
\* ------------------------------------------------------------------------
\* what the three targets received: the out stream, the file latfile and
\* standard output (None when nothing was written to it)
Sinks0 == [out |-> NoneSeq, file |-> NoneSeq, stdout |-> NoneSeq]

\* file names open(latfile, 'wb') succeeds on
Writable == {"out.lat"}

\* lines 282-300: the value returned and what was written.  The module does
\* not import sys, so the branch of line 285 raises NameError, which the bare
\* except of line 296 turns into None
write_out(ls, latfile, out) ==
    LET all_lines == Join(<<NL>>, ls)
    IN  IF latfile = "" /\ ~out
        THEN [retval |-> NoneOf(""), written |-> Sinks0]
        ELSE IF ~out
        THEN IF latfile \in Writable
             THEN [retval |-> Some(latfile), written |-> [Sinks0 EXCEPT !.file = Some(all_lines)]]
             ELSE [retval |-> NoneOf(""), written |-> Sinks0]
        ELSE [retval |-> Some("string"),
              written |-> [Sinks0 EXCEPT !.out = Some(all_lines \o <<NL>>)]]

\* ------------------------------------------------------------------------
\* Lattice serializer, fresh mode: inputs and actions
\* ------------------------------------------------------------------------
FreshLattices == {Lattice0, Lattice1, Lattice2}
StartArgs   == {ArgNone} \cup {ArgIdx(k) : k \in 0 .. 4} \cup {ArgName(t) : t \in {NameD1, NameB1, NameZZ}}
EndArgs     == {ArgNone} \cup {ArgIdx(k) : k \in 0 .. 5} \cup {ArgName(t) : t \in {NameD1, NameB1, NameB2}}
LatfileArgs == {"", "out.lat", "nodir/out.lat"}

InitFresh ==
    /\ machine \in FreshLattices
    /\ query = NoQuery
    /\ IdlePatch
    /\ IdleBeam

\* generate_latfile(machine, latfile=, out=, start=, end=) up to line 180
FreshLines ==
    /\ pc = "idle"
    /\ last.op = "none"
    /\ \E start \in StartArgs, end \in EndArgs, latfile \in LatfileArgs, out \in BOOLEAN :
         \E r \in {fresh_lines(machine, start, end)} :
            /\ lines' = r.v
            /\ pc' = IF r.some THEN "done" ELSE "failed"
            /\ last' = [NoCall EXCEPT !.op = "generate_latfile", !.start = start, !.end = end,
                                      !.latfile = latfile, !.out = out]
    /\ UNCHANGED <<lookupVars, fline, n, origin, skipped, heap, objs, steps, srcconf>>

\* the rest of the call, lines 282-300
WriteOut ==
    /\ pc = "done"
    /\ last.op = "generate_latfile"
    /\ \E r \in {write_out(lines, last.latfile, last.out)} :
          last' = [last EXCEPT !.retval = r.retval, !.written = r.written]
    /\ pc' = "returned"
    /\ UNCHANGED <<lookupVars, fline, n, lines, origin, skipped, heap, objs, steps, srcconf>>

NextFresh == FreshLines \/ WriteOut

\* ------------------------------------------------------------------------
\* Lattice serializer, fresh mode: properties
\* ------------------------------------------------------------------------
\* a fresh-mode call has produced its lines
FreshDone == last.op = "generate_latfile" /\ pc \in {"done", "returned"}

\* the indices a call visits
SectionOf(m, call) == section(resolve_start(m, call.start).v, resolve_end(m, call.end).v)

\* the positions of sec at which a name occurs for the first time
FirstOccurrences(m, sec) ==
    SelectSeq([j \in 1 .. Len(sec) |-> j],
              LAMBDA j : \A k \in 1 .. (j - 1) : Elem(m, sec[k]).name # Elem(m, sec[j]).name)

\* the lines between the global assignments and the beam-line declaration
DeclarationLines(m, ls) == SubSeq(ls, Cardinality(DOMAIN m.globals) + 1, Len(ls) - 2)

\* C17: the declaration lines of fresh mode are one per distinct element
\* name of the section, each the declaration of the first index of the
\* section carrying the name, in the order in which the names first occur
C17_OneDeclarationPerName ==
    FreshDone =>
        LET sec == SectionOf(machine, last)
            fo  == FirstOccurrences(machine, sec)
            dl  == DeclarationLines(machine, lines)
        IN  /\ Len(dl) = Cardinality({Elem(machine, sec[j]).name : j \in 1 .. Len(sec)})
            /\ Len(dl) = Len(fo)
            /\ \A j \in 1 .. Len(fo) :
                  dl[j] = element_line(machine, mc_src_of(machine), sec[fo[j]])

\* the whole of a lattice that declares D1 twice with two lengths has been
\* written: D1 is declared once, with the length of its first index
C17_Witness ==
    /\ FreshDone
    /\ machine = Lattice2
    /\ last.start = ArgNone /\ last.end = ArgNone
    /\ Len(SectionOf(machine, last)) = 5
    /\ Len(DeclarationLines(machine, lines)) = 3
    /\ DeclarationLines(machine, lines)[2]
          = <<"D", "1", ":", " ", "d", "r", "i", "f", "t", ",", " ", "L", " ", "=", " ", "1", ".", "0", ";">>

\* the index a start or end argument stands for
IndexOf(m, arg, default) ==
    IF arg.kind = "none" THEN default
    ELSE IF arg.kind = "name" THEN First(find_name(m, arg.name))
    ELSE arg.idx

\* C18 (as stated): the beam-line declaration lists element 0 and then the
\* elements from start to end inclusive, each index once and in transport
\* order, repeated names repeated, and the USE line follows it
C18_BeamLineListsSection ==
    FreshDone =>
        LET a   == IndexOf(machine, last.start, 1)
            b   == IndexOf(machine, last.end, Len(machine.elements) - 1)
            idx == IF a = 0 THEN [k \in 1 .. (b + 1) |-> k - 1]
                   ELSE <<0>> \o [k \in 1 .. (b - a + 1) |-> a + k - 1]
            nms == [k \in 1 .. Len(idx) |-> Elem(machine, idx[k]).name]
        IN  (a >= 0 /\ b >= a) =>
               /\ lines[Len(lines) - 1]
                     = line_of(blname(machine), <<"(">> \o Join(<<",", " ">>, nms) \o <<")">>)
               /\ lines[Len(lines)] = use_of(blname(machine))

\* C19 (as stated): the text goes to exactly one target, the out stream when
\* given (returning 'string'), else the file latfile (returning its name),
\* else standard output, and the call returns a value that is not None
\* unless writing fails
C19_OneTargetByPriority ==
    (last.op = "generate_latfile" /\ pc = "returned") =>
        LET w == last.written
            text == Join(<<NL>>, lines)
        IN  IF last.out
            THEN /\ last.retval = Some("string")
                 /\ w.out.some /\ ~w.file.some /\ ~w.stdout.some
            ELSE IF last.latfile # ""
            THEN IF last.latfile \in Writable
                 THEN /\ last.retval = Some(last.latfile)
                      /\ w.file = Some(text) /\ ~w.out.some /\ ~w.stdout.some
                 ELSE ~last.retval.some
            ELSE /\ last.retval.some
                 /\ w.stdout.some /\ ~w.out.some /\ ~w.file.some

\* ------------------------------------------------------------------------
\* Element insertion
\* ------------------------------------------------------------------------
\* an optional machine and an optional element dictionary that are None
NoMachine == NoneOf([globals |-> <<>>, elements |-> <<>>])
NoElement == NoneOf([name |-> <<>>, type |-> <<>>, props |-> <<>>])

\* a machine with a charge stripper
NameST == <<"S", "T">>
Lattice3 ==
    [globals |-> Globals0,
     elements |->
       << [name |-> NameS,  type |-> T_source,   props |-> SourceProps],
          [name |-> NameD1, type |-> T_drift,    props |-> (K_L :> Num(1))],
          [name |-> NameST, type |-> T_stripper, props |-> NoProps],
          [name |-> NameB1, type |-> T_bpm,      props |-> NoProps] >>]

\* m.conf()['elements']: the elements with the values the machine was built
\* with (a machine without the field initial has never been reconfigured)
conf_elements(m) == IF "initial" \in DOMAIN m THEN m.initial ELSE m.elements

\* conf_update(machine): Machine(mconf) after every element of mconf got the
\* current value of its own keys; None is not returned for a machine
conf_update(m) ==
    LET mc_src == mc_src_of(m)
        upd(i) ==
            LET elem_i == conf(m, i)
                etype  == elem_i[K_type].s
                elem_k == (DOMAIN elem_i \ DOMAIN mc_src)
                          \cup (IF etype = T_source THEN {K_vector_variable, K_matrix_variable} ELSE {})
                          \cup (IF etype = T_stripper THEN {K_IonChargeStates, K_NCharge} ELSE {})
            IN  [conf_elements(m)[i + 1] EXCEPT !.props = [k \in elem_k |-> elem_i[k]] @@ @]
        els == [p \in DOMAIN m.elements |-> upd(p - 1)]
    IN  IF "initial" \in DOMAIN m THEN [m EXCEPT !.elements = els, !.initial = els]
        ELSE [m EXCEPT !.elements = els]

\* l.insert(index, x) for index >= 0: at the end when index is beyond it
list_insert(l, index, x) ==
    LET at == IF index > Len(l) THEN Len(l) ELSE index
    IN  SubSeq(l, 1, at) \o <<x>> \o SubSeq(l, at + 1, Len(l))

\* insert_element(machine, index, element) run by Python py (2 or 3): what it
\* returns, or that it raised.  unicode is a builtin of Python 2 only and the
\* module does not define it, so line 482 raises NameError under Python 3;
\* m.find(name=index)[0] raises IndexError for a name that is not there
insert_element(py, mach, index, element) ==
    LET m == conf_update(mach)
    IN  IF index.kind # "none" /\ element.some
        THEN IF py = 3 THEN [raised |-> TRUE, new_m |-> NoMachine]
             ELSE IF index.kind = "name" /\ find_name(m, index.name) = {}
             THEN [raised |-> TRUE, new_m |-> NoMachine]
             ELSE LET at == IF index.kind = "name" THEN First(find_name(m, index.name))
                            ELSE index.idx
                  IN  [raised |-> FALSE,
                       new_m |-> Some([m EXCEPT !.elements = list_insert(@, at, element.v)])]
        ELSE [raised |-> FALSE, new_m |-> Some(m)]

\* ModelFlame.insert_element(index, element, econf) on a model whose machine
\* is mach: the machine of the model afterwards, and whether the call raised
ModelFlame_insert_element(py, mach, index, element, econf) ==
    LET r == IF ~econf.some THEN insert_element(py, mach, index, element)
             ELSE insert_element(py, mach, econf.v.index, Some(econf.v.properties))
    IN  [raised |-> r.raised,
         _mach_ins |-> IF r.new_m.some THEN r.new_m.v ELSE mach]

\* inputs
NameT == <<"T">>
InsLattices  == {Lattice0, Lattice1, Lattice3}
InsIndexArgs == {ArgNone} \cup {ArgIdx(k) : k \in 0 .. 5} \cup {ArgName(t) : t \in {NameD1, NameB1, NameZZ}}
InsElements  == { [name |-> NameT,  type |-> T_drift, props |-> (K_L :> Num(3))],
                  [name |-> NameD1, type |-> T_bpm,   props |-> NoProps] }
ElementArgs  == {NoElement} \cup {Some(e) : e \in InsElements}
Pythons      == {2, 3}

InitInsert ==
    /\ machine \in InsLattices
    /\ query = NoQuery
    /\ IdlePatch
    /\ IdleBeam

\* one call insert_element(machine, index, element) by a caller holding machine
InsertElement ==
    /\ \E py \in Pythons, index \in InsIndexArgs, element \in ElementArgs :
         \E r \in {insert_element(py, machine, index, element)} :
            last' = [NoCall EXCEPT !.op = "insert_element", !.py = py, !.index = index,
                                   !.element = element, !.raised = r.raised, !.new_m = r.new_m]
    /\ UNCHANGED <<lookupVars, patchVars, heap, objs, steps, srcconf>>

\* one call fm.insert_element(index, element) or fm.insert_element(econf=econf)
\* on the model whose machine is machine
ModelInsert ==
    /\ steps < MaxSteps
    /\ \E py \in Pythons, index \in InsIndexArgs \ {ArgNone}, e \in InsElements, byconf \in BOOLEAN :
         \E r \in {ModelFlame_insert_element(py, machine,
                      IF byconf THEN ArgNone ELSE index,
                      IF byconf THEN NoElement ELSE Some(e),
                      IF byconf THEN Some([index |-> index, properties |-> e])
                                ELSE NoneOf([index |-> ArgNone, properties |-> NoElement.v]))} :
            /\ machine' = r._mach_ins
            /\ last' = [NoCall EXCEPT !.op = "ModelFlame.insert_element", !.py = py,
                                      !.index = index, !.element = Some(e),
                                      !.raised = r.raised, !.econf = byconf]
    /\ steps' = steps + 1
    /\ UNCHANGED <<query, patchVars, heap, objs, srcconf>>

NextInsert == InsertElement \/ ModelInsert

\* ------------------------------------------------------------------------
\* Element insertion: properties
\* ------------------------------------------------------------------------
\* new is old with the element e inserted at index i: one more element, e at
\* i with its name, type and properties, the elements before i where they
\* were and the elements from i on one index later
InsertedAt(old, new, i, e) ==
    /\ Len(new.elements) = Len(old.elements) + 1
    /\ conf(new, i) = conf([old EXCEPT !.elements = <<e>>], 0)
    /\ \A j \in Indices(old) :
          conf(new, IF j < i THEN j ELSE j + 1) = conf(old, j)
    /\ new.globals = old.globals

\* the index an insertion is asked at
AskedAt(m, index) ==
    IF index.kind = "name" THEN First(find_name(m, index.name)) ELSE index.idx

\* the calls C20 is about: an element and an index of the machine (or the
\* index after its last element, or the name of one of its elements) are given
InsertAsked(m, call) ==
    /\ call.element.some
    /\ call.index.kind # "none"
    /\ call.index.kind = "name" => find_name(m, call.index.name) # {}
    /\ AskedAt(m, call.index) <= Len(m.elements)

\* C20 (as stated): insert_element returns a new machine that is the machine
\* passed in with the element inserted at index i, and leaves the machine
\* passed in as it was; ModelFlame.insert_element makes that new machine the
\* machine of the model
C20_InsertElement ==
    [][/\ (last'.op = "insert_element" /\ InsertAsked(machine, last')) =>
             /\ ~last'.raised
             /\ last'.new_m.some
             /\ InsertedAt(machine, last'.new_m.v, AskedAt(machine, last'.index), last'.element.v)
             /\ machine' = machine
       /\ (last'.op = "ModelFlame.insert_element" /\ InsertAsked(machine, last')) =>
             /\ ~last'.raised
             /\ InsertedAt(machine, machine', AskedAt(machine, last'.index), last'.element.v)]_vars

\* ------------------------------------------------------------------------
\* Simulation: ModelFlame.run and propagate
\* ------------------------------------------------------------------------
\* the engine's effect of one element on a state: the source element loads
\* the beam of the source, an element with a length moves pos by it, and
\* every other element of the lattices here leaves the state as it is
engine_element(e, s) ==
    IF e.type = T_source THEN SourceState(1)
    ELSE IF K_L \in DOMAIN e.props THEN [s EXCEPT !.pos = QAdd(@, Int2Q(e.props[K_L].n))]
    ELSE s

\* m.propagate(s, start=start, max=max) for max >= 1: the state after the
\* elements start .. start+max-1 of the machine; the engine works on s itself
RECURSIVE engine_propagate(_, _, _, _)
engine_propagate(m, s, start, max) ==
    IF max <= 0 \/ start \notin Indices(m) THEN s
    ELSE engine_propagate(m, engine_element(Elem(m, start), s), start + 1, max - 1)

\* propagate(machine=m, bmstate=bs, from_element=, to_element=) for a
\* BeamState on the engine state bs: s = bs.state is the object the BeamState
\* holds, the engine advances it, and bs.state = s stores a clone of it; the
\* BeamState returned is the one given
propagate(hp, m, bs, vstart, vend) ==
    LET vmax == vend - vstart + 1
        adv  == [hp EXCEPT ![bs] = engine_propagate(m, @, vstart, vmax)]
    IN  clone(adv, bs)

\* an element given by name in run: min(m.find(name)), ValueError when absent
run_index(m, arg, default) ==
    IF arg.kind = "none" THEN Some(default)
    ELSE IF arg.kind = "name"
    THEN IF find_name(m, arg.name) = {} THEN NoneOf(0) ELSE Some(First(find_name(m, arg.name)))
    ELSE Some(arg.idx)

\* run that works on the state it is given instead of a clone
ModelFlame_run_in_place(hp, m, mach_states, bmstate, from_element, to_element) ==
    LET f0 == run_index(m, from_element, 0)
        t0 == run_index(m, to_element, Len(m.elements) - 1)
    IN  IF ~f0.some \/ ~t0.some THEN [raised |-> TRUE, heap |-> hp, states |-> 0, vstart |-> 0, vend |-> 0]
        ELSE LET h      == IF bmstate = 0 THEN mach_states ELSE bmstate
                 vstart == IF from_element.kind = "none"
                           THEN (IF is_zeros_states(hp[h]) THEN 0 ELSE 1) ELSE f0.v
                 r      == propagate(hp, m, h, vstart, t0.v)
             IN  [raised |-> FALSE, heap |-> r.heap, states |-> r.states,
                  vstart |-> vstart, vend |-> t0.v]

\* fm.run(bmstate=, from_element=, to_element=) on the model with machine m
\* and state mach_states (bmstate 0 for None): the engine states afterwards,
\* the state of the BeamState returned, and the range simulated
ModelFlame_run(hp, m, mach_states, bmstate, from_element, to_element) ==
    LET f0 == run_index(m, from_element, 0)
        t0 == run_index(m, to_element, Len(m.elements) - 1)
    IN  IF ~f0.some \/ ~t0.some THEN [raised |-> TRUE, heap |-> hp, states |-> 0, vstart |-> 0, vend |-> 0]
        ELSE LET s      == clone(hp, IF bmstate = 0 THEN BeamState_init(mach_states) ELSE bmstate)
                 vstart == IF from_element.kind = "none"
                           THEN (IF is_zeros_states(s.heap[s.states]) THEN 0 ELSE 1) ELSE f0.v
                 pre    == IF bmstate = 0 /\ vstart > 1
                           THEN propagate(s.heap, m, s.states, 1, vstart - 1) ELSE s
                 s0     == clone(pre.heap, pre.states)
                 r      == propagate(s0.heap, m, pre.states, vstart, t0.v)
             IN  [raised |-> FALSE, heap |-> r.heap, states |-> r.states,
                  vstart |-> vstart, vend |-> t0.v]

\* obs of run for monitor = None, -1 and 'all', and the indices of the
\* results r0 + r (include_initial_state is True)
run_results(m, monitor, vstart, vend) ==
    LET obs == IF monitor = "last" THEN {vend}
               ELSE IF monitor = "all" THEN Indices(m) ELSE {}
    IN  (IF vstart # 0 /\ (vstart - 1) \in obs THEN {vstart - 1} ELSE {})
            \cup (obs \cap (vstart .. vend))

\* inputs: the model holds the engine state 1, the caller the BeamState ms on
\* the engine state 2
FromArgs == {ArgNone, ArgIdx(0), ArgIdx(2), ArgName(NameD1), ArgName(NameZZ)}
ToArgs   == {ArgNone, ArgIdx(3), ArgName(NameB2)}

InitRun ==
    /\ machine \in {Lattice0, Lattice1}
    /\ query = NoQuery
    /\ IdlePatch
    /\ heap \in {<<EngineState(1), EngineState(2)>>, <<ZeroState, EngineState(1)>>,
                 <<EngineState(1), ZeroState>>}
    /\ objs = [ms |-> 2, cl |-> 0, fm |-> 1]
    /\ steps = 0
    /\ last = NoCall
    /\ srcconf = NoSource

\* r, s = fm.run(bmstate=, from_element=, to_element=, monitor=)
Run ==
    /\ steps < MaxSteps
    /\ \E bmstate \in {"", "ms"}, from_element \in FromArgs, to_element \in ToArgs,
          monitor \in {"none", "last", "all"} :
       \E r \in {ModelFlame_run(heap, machine, objs.fm, IF bmstate = "" THEN 0 ELSE objs[bmstate],
                                from_element, to_element)} :
          /\ heap' = r.heap
          /\ last' = [NoCall EXCEPT !.op = "run", !.bmstate = bmstate,
                         !.from_element = from_element, !.to_element = to_element,
                         !.monitor = monitor, !.raised = r.raised, !.rs = r.states,
                         !.r = IF r.raised THEN {}
                               ELSE run_results(machine, monitor, r.vstart, r.vend)]
    /\ steps' = steps + 1
    /\ UNCHANGED <<objs, srcconf, lookupVars, patchVars>>

\* r, ms = propagate(machine, ms, from_element=, to_element=)
Propagate ==
    /\ steps < MaxSteps
    /\ \E from_element \in {ArgNone, ArgIdx(2)}, to_element \in {ArgNone, ArgIdx(3)} :
       \E r \in {propagate(heap, machine, objs.ms,
                           IF from_element.kind = "none" THEN 0 ELSE from_element.idx,
                           IF to_element.kind = "none" THEN Len(machine.elements) - 1
                           ELSE to_element.idx)} :
          /\ heap' = r.heap
          /\ objs' = [objs EXCEPT !.ms = r.states]
          /\ last' = [NoCall EXCEPT !.op = "propagate", !.bmstate = "ms",
                         !.from_element = from_element, !.to_element = to_element,
                         !.rs = r.states]
    /\ steps' = steps + 1
    /\ UNCHANGED <<srcconf, lookupVars, patchVars>>

NextRun == Run \/ Propagate

\* C21: run leaves the state of the BeamState it is given and the state
\* stored in the model as they were, for every bmstate, from_element,
\* to_element and monitor, while propagate advances the state of the
\* BeamState it is given
C21_RunKeepsItsInput ==
    [][/\ last'.op = "run" =>
             /\ objs' = objs
             /\ heap'[objs.ms] = heap[objs.ms]
             /\ heap'[objs.fm] = heap[objs.fm]
       /\ last'.op = "propagate" =>
             LET vstart == IF last'.from_element.kind = "none" THEN 0 ELSE last'.from_element.idx
                 vend   == IF last'.to_element.kind = "none" THEN Len(machine.elements) - 1
                           ELSE last'.to_element.idx
             IN  heap'[objs'.ms] = engine_propagate(machine, heap[objs.ms], vstart, vend - vstart + 1)]_vars

\* run has advanced a clone of the model's own state from element 2 on, with
\* the model's state and the caller's state as they were at the start, and
\* the state returned has moved
C21_Witness ==
    /\ last.op = "run"
    /\ last.bmstate = "" /\ last.from_element = ArgIdx(2) /\ ~last.raised
    /\ heap[objs.fm] = EngineState(1)
    /\ heap[last.rs].pos # Zero
    /\ Len(heap) > 4

\* ------------------------------------------------------------------------
\* Live configuration: reconfigure, clone_machine and generate_latfile
\* ------------------------------------------------------------------------
\* a machine that can be reconfigured: elements holds the live settings
\* m.conf(i) reads, initial what m.conf()['elements'] keeps returning
LiveMachine(m) == [globals |-> m.globals, elements |-> m.elements, initial |-> m.elements]

\* m.reconfigure(i, patch), as configure(machine, c_idx=i, c_dict=patch) and
\* ModelFlame.reconfigure call it: the element i gets the values of patch
reconfigure(m, i, patch) == [m EXCEPT !.elements[i + 1].props = patch @@ @]

\* inputs: a new length, a new beam energy and a new centroid vector
Patches ==
    { (K_L :> Num(2)), (K_IonEk :> Num(5)), (K_P0 :> Arr(<<2, 2, 2, 2, 2, 2, 1>>)) }

InitLive ==
    /\ machine \in {LiveMachine(Lattice0), LiveMachine(Lattice1), LiveMachine(Lattice3)}
    /\ query = NoQuery
    /\ IdlePatch
    /\ IdleBeam

\* configure(machine, c_idx=i, c_dict=patch)
Reconfigure ==
    /\ steps < MaxSteps
    /\ pc = "idle"
    /\ \E i \in Indices(machine), patch \in Patches :
          /\ machine' = reconfigure(machine, i, patch)
          /\ last' = [NoCall EXCEPT !.op = "reconfigure", !.index = ArgIdx(i)]
    /\ steps' = steps + 1
    /\ UNCHANGED <<query, patchVars, heap, objs, srcconf>>

\* fm.clone_machine(): conf_update(self._mach_ins)
CloneMachine ==
    /\ pc = "idle"
    /\ last' = [NoCall EXCEPT !.op = "clone_machine", !.new_m = Some(conf_update(machine))]
    /\ UNCHANGED <<lookupVars, patchVars, heap, objs, steps, srcconf>>

\* generate_latfile(machine, out=sio), the whole call
GenerateLatfile ==
    /\ pc = "idle"
    /\ \E r \in {fresh_lines(machine, ArgNone, ArgNone)} :
       \E w \in {write_out(r.v, "", TRUE)} :
          /\ lines' = r.v
          /\ last' = [NoCall EXCEPT !.op = "generate_latfile", !.out = TRUE,
                                    !.retval = w.retval, !.written = w.written]
    /\ pc' = "returned"
    /\ UNCHANGED <<lookupVars, fline, n, origin, skipped, heap, objs, steps, srcconf>>

NextLive == Reconfigure \/ CloneMachine \/ GenerateLatfile

\* C22 (as stated): after any reconfigure calls, the fresh-mode output holds
\* for every element index of the section the declaration of that element
\* with the current values of its properties that the source does not share
C22_LiveRoundTrip ==
    FreshDone =>
        LET sec == SectionOf(machine, last)
            dl  == DeclarationLines(machine, lines)
        IN  \A j \in 1 .. Len(sec) :
               \E d \in 1 .. Len(dl) :
                  dl[d] = element_line(machine, mc_src_of(machine), sec[j])

\* C30 (as stated): after any reconfigure calls, every element of the machine
\* that conf_update builds has the live property values of the element of
\* the old machine
C30_ConfUpdateCarriesLiveSettings ==
    last.op = "clone_machine" =>
        \A i \in Indices(machine) : conf(last.new_m.v, i) = conf(machine, i)

\* ------------------------------------------------------------------------
\* Centroid assignment
\* ------------------------------------------------------------------------
\* the vectors a caller assigns as centroid: [x, x', y, y', phi, dEk, 1] and
\* vectors whose last component is not 1
CentroidArgs ==
    { Centroid(4),
      <<Frac(1, 10), Frac(1, 10), Frac(1, 10), Frac(1, 10), Frac(1, 10), Frac(1, 10), Int2Q(2)>>,
      <<Zero, Zero, Zero, Zero, Zero, Zero, Zero>> }

\* o.moment0 = x and o.moment0_env = x: setattr(self._states, name, x)
SetMoment0 ==
    /\ steps < MaxSteps
    /\ \E o \in Objects, v \in CentroidArgs, nm \in {"moment0", "moment0_env"} :
          /\ heap' = [heap EXCEPT ![objs[o]][nm] =
                         IF nm = "moment0"
                         THEN [r \in 1 .. 7 |-> [k \in 1 .. Len(StateOf(o).bg) |-> v[r]]]
                         ELSE v]
          /\ last' = [NoCall EXCEPT !.op = "setattr", !.obj = o, !.name = nm]
    /\ steps' = steps + 1
    /\ UNCHANGED <<objs, srcconf, lookupVars, patchVars>>

NextCentroid == Clone \/ SetAttr \/ SetMoment0

\* C23 (as stated): in every BeamState reached from a propagated state
\* through setters, the seventh component of the centroid of every charge
\* state, and of the average centroid, is exactly 1
C23_SeventhComponentIsOne ==
    \A o \in Objects :
        /\ \A k \in 1 .. Len(StateOf(o).bg) : StateOf(o).moment0[7][k] = Int2Q(1)
        /\ StateOf(o).moment0_env[7] = Int2Q(1)

\* ------------------------------------------------------------------------
\* Lattice serializer, patch mode: statements and the cursor
\* ------------------------------------------------------------------------
\* original line k was handled by the outer loop (and not passed over by the
\* continuation loop)
Visited(k) == \E j \in 1 .. Len(origin) : origin[j] = k

\* the output line made for original line k
OutputOf(k) == lines[CHOOSE j \in 1 .. Len(origin) : origin[j] = k]

\* the outer loop replaces original line k by a new text
Rewrites(k) ==
    LET rl == RemoveSpaces(fline[k])
    IN  /\ rl # <<>> /\ rl # <<NL>> /\ rl[1] # "#"
        /\ rewrite_line(machine, mc_src_of(machine), get_all_names(machine),
                        DropLast(fline[k])).some

\* the terminating ';' of the statement is in the comment-free part of line t
Terminates(t) == Find(CommentFree(fline[t]), <<";">>) # -1

\* the last line of the statement that starts at line k without terminating
\* there: the first later line that terminates it, or the last line of the file
StatementEnd(k) ==
    LET c == {t \in (k + 1) .. Len(fline) : Terminates(t)}
    IN  IF c = {} THEN Len(fline) ELSE CHOOSE t \in c : \A u \in c : t <= u

\* C24 (as stated): when the scan is over, every rewritten statement whose
\* first line does not hold the terminating ';' in its comment-free part has
\* all its continuation lines, up to and including the line with the
\* terminating ';', left out of the output, also when the first line's
\* trailing comment contains ';'
C24_ContinuationLinesDropped ==
    (pc = "done") =>
        \A k \in 1 .. Len(fline) :
            (Visited(k) /\ Rewrites(k) /\ ~Terminates(k)) =>
                \A t \in (k + 1) .. StatementEnd(k) : ~Visited(t)

\* the left-hand identifier of an assignment line and its trailing comment
LeftHand(line) ==
    LET b == CommentFree(line)
    IN  RemoveSpaces(Slice(b, 0, Find(b, <<"=">>)))
TrailingComment(line) ==
    LET c == Content(line)
        h == Find(c, <<"#">>)
    IN  IF h = -1 THEN <<>> ELSE Slice(c, h, Len(c))

\* 'key = <current value>;' followed by the original trailing comment, with or
\* without a blank between the two
Patched(line) ==
    LET r == rewrite_assignment(mc_src_of(machine), Content(line), LeftHand(line))
    IN  { r.nl \o <<";">> \o ws \o TrailingComment(line) : ws \in {<<>>, <<" ">>} }

\* C25 (as stated): when the scan is over, every line that starts a statement
\* and is, by its comment-free part alone, an assignment to a key of the
\* source property map other than Eng_Data_Dir is in the output as
\* 'key = <current value>;' followed by its original trailing comment, also
\* when that comment contains ': '
C25_ClassifiedByCommentFreePart ==
    (pc = "done") =>
        \A k \in 1 .. Len(fline) :
            (k \notin skipped /\ IsLiveAssignment(fline[k])
                /\ LeftHand(fline[k]) # K_Eng_Data_Dir) =>
                (Visited(k) /\ OutputOf(k) \in Patched(fline[k]))

\* C26 (as stated): when the scan is over, every assignment line to
\* Eng_Data_Dir that starts a statement is in the output with exactly the
\* characters of the original line: ';', trailing whitespace and trailing
\* comment included
C26_EngDataDirVerbatim ==
    (pc = "done") =>
        \A k \in 1 .. Len(fline) :
            (k \notin skipped /\ IsLiveAssignment(fline[k])
                /\ LeftHand(fline[k]) = K_Eng_Data_Dir) =>
                (Visited(k) /\ OutputOf(k) = Content(fline[k]))

\* the scan is over: the loop was left, or an exception ended the call
ScanOver == pc \in {"done", "failed"}

\* one step of the scan moves the cursor forward: every iteration of the
\* continuation loop, and every iteration of the outer loop (which ends with
\* the scan back at the outer loop), ends with a greater cursor
CursorAdvances ==
    /\ n' >= n
    /\ (pc = "skip") => (n' > n)
    /\ (pc' = "scan") => (n' > n)

\* one step of the scan visits an original line that was not visited before
VisitsNewLine ==
    /\ (origin' # origin) =>
          (~Visited(n + 1) /\ (n + 1) \notin skipped /\ origin' = Append(origin, n + 1))
    /\ (skipped' # skipped) =>
          (~Visited(n + 2) /\ (n + 2) \notin skipped /\ skipped' = skipped \cup {n + 2})

\* C28: the scan ends for every original file: every iteration of the outer
\* loop and of the continuation loop ends with a greater cursor, no original
\* line is visited twice, and the scan is eventually over, also when a
\* rewritten multi-line statement has no terminating ';' before the end of
\* the file
C28_ScanTerminates ==
    /\ [][CursorAdvances /\ VisitsNewLine]_vars
    /\ [](n <= Len(fline) + 1)
    /\ <>ScanOver

\* the scan is over on a file whose last rewritten statement is never
\* terminated: its continuation lines were passed over up to the last line
C28_Witness ==
    /\ pc = "done"
    /\ \E k \in 1 .. (Len(fline) - 1) :
          /\ Visited(k) /\ Rewrites(k) /\ ~Terminates(k)
          /\ \A t \in (k + 1) .. Len(fline) : ~Terminates(t) /\ t \in skipped

\* ------------------------------------------------------------------------
\* BeamState: the shape of the correlation tensor
\* ------------------------------------------------------------------------
NextTensor == SetTwiss \/ SetCouple

\* slice k of the tensor t is symmetric and its row 6 and column 6 are zero
SymmetricSlice(t, k) ==
    /\ \A r \in 1 .. 7, c \in 1 .. 7 : t[r][c][k] = t[c][r][k]
    /\ \A r \in 1 .. 7 : t[7][r][k] = Zero /\ t[r][7][k] = Zero

\* the last call was set_twiss or set_couple of object o on charge state cs,
\* and the call was not ended by an exception
TensorCall(o, cs) ==
    /\ last'.op \in {"set_twiss", "set_couple"}
    /\ last'.obj = o /\ last'.cs = cs /\ ~last'.raised

\* C27: a call of set_twiss or set_couple on charge state cs of a BeamState
\* whose tensor slices are symmetric with row 6 and column 6 zero leaves every
\* slice symmetric with row 6 and column 6 zero, and leaves the slices of the
\* charge states other than cs as they were
C27_TensorShapeKept ==
    [][\A o \in Objects : \A cs \in 0 .. (Len(StateOf(o).bg) - 1) :
          (TensorCall(o, cs)
              /\ \A k \in 1 .. Len(StateOf(o).bg) : SymmetricSlice(StateOf(o).moment1, k)) =>
              \A k \in 1 .. Len(StateOf(o).bg) :
                  /\ SymmetricSlice(heap'[objs[o]].moment1, k)
                  /\ (k # cs + 1) =>
                        \A r \in 1 .. 7, c \in 1 .. 7 :
                            heap'[objs[o]].moment1[r][c][k] = StateOf(o).moment1[r][c][k]]_vars

\* set_twiss has rewritten the horizontal block of the second charge state of
\* a beam of two, and set_couple has set a coupling term of the first one
C27_Witness ==
    \E o \in Objects :
        /\ Len(StateOf(o).bg) = 2
        /\ \/ /\ last.op = "set_twiss" /\ last.obj = o /\ last.coor = "x" /\ last.cs = 1
              /\ StateOf(o).moment1[1][1][2] # EngineState(2).moment1[1][1][2]
           \/ /\ last.op = "set_couple" /\ last.obj = o /\ last.cs = 0
              /\ StateOf(o).moment1[1][3][1] # EngineState(2).moment1[1][3][1]

\* the key k is the per-charge-state field {v}{i} of the variable named v
ChargeField(k, v, i) == k = v \o format_int(i)

\* C29 (as stated): after generate_source(state, sconf) the returned property
\* map holds {vector_variable}{i} and {matrix_variable}{i} for every charge
\* state i of the state, and no field {vector_variable}{i} or
\* {matrix_variable}{i} with i >= len(state.IonZ)
C29_NoStaleChargeFields ==
    last.op = "generate_source" =>
        LET new == srcconf.properties
            p   == format_var(new, K_vector_variable)
            s   == format_var(new, K_matrix_variable)
            nz  == Len(StateOf(last.obj).IonZ)
        IN  /\ \A i \in 0 .. (nz - 1) :
                  (p \o format_int(i)) \in DOMAIN new /\ (s \o format_int(i)) \in DOMAIN new
            /\ \A k \in DOMAIN new : \A i \in nz .. (Len(DigitChars) - 1) :
                  ~ChargeField(k, p, i) /\ ~ChargeField(k, s, i)

\* ------------------------------------------------------------------------
\* Specifications
\* ------------------------------------------------------------------------
NextElem == GetElement

SpecElem == InitElem /\ [][NextElem]_vars

SpecPatch == InitPatch /\ [][NextPatch]_vars

\* the interpreter runs on: while the loop is not left and no exception has
\* ended the call, the next iteration of the loop it is in is executed. Every
\* iteration changes the position or the cursor, and the fairness condition
\* is stated on these two
Iteration ==
    /\ pc \in {"scan", "skip"}
    /\ pc' \in {"scan", "skip", "done", "failed"}
    /\ n' \in n .. (n + 2)

SpecPatchLive == InitPatch /\ [][NextPatch]_vars /\ WF_<<pc, n>>(Iteration)

SpecBeam == InitBeam /\ [][NextBeam]_vars

SpecTensor == InitBeam /\ [][NextTensor]_vars

NextAlias == Clone \/ SetAttr

SpecAlias == InitBeam /\ [][NextAlias]_vars

SpecSource == InitSource /\ [][NextSource]_vars

SpecNew == InitNew /\ [][NextNew]_vars

SpecFresh == InitFresh /\ [][NextFresh]_vars

SpecInsert == InitInsert /\ [][NextInsert]_vars

SpecRun == InitRun /\ [][NextRun]_vars

SpecLive == InitLive /\ [][NextLive]_vars

SpecCentroid == InitBeam /\ [][NextCentroid]_vars

Init == InitElem \/ InitPatch \/ InitBeam \/ InitSource

Next == NextElem \/ NextPatch \/ NextBeam \/ NextSource

Spec == Init /\ [][Next]_vars

====
